---- MODULE Spec2Model ----
(***************************************************************************)
(* Model of the ML engine's signal pipeline: PatternDetector               *)
(* (signals/pattern_detector.py), SignalGenerator                          *)
(* (signals/signal_generator.py) and the analyze_market_data endpoint      *)
(* (api/endpoints.py).                                                     *)
(*                                                                         *)
(* Python floats are modelled as exact rationals <<n, d>> (d > 0, lowest   *)
(* terms); square roots (np.std) are rounded down to 1/100.                *)
(***************************************************************************)
EXTENDS Integers, Sequences, FiniteSets, TLC

(***************************************************************************)
(* Exact rational arithmetic.                                              *)
(***************************************************************************)
RECURSIVE Gcd(_, _)
Gcd(a, b) == IF b = 0 THEN a ELSE Gcd(b, a % b)

IAbs(a) == IF a < 0 THEN -a ELSE a

R(n, d) ==
    LET s == IF d < 0 THEN -1 ELSE 1
        g == Gcd(IAbs(n), IAbs(d))
    IN  <<(s * n) \div g, (s * d) \div g>>

Zero == <<0, 1>>
One == <<1, 1>>
Half == <<1, 2>>
Two == <<2, 1>>

RInt(i) == <<i, 1>>
\* (common factors are cancelled before multiplying, to keep the products
\* inside TLC's integers)
RAdd(a, b) ==
    LET g == Gcd(a[2], b[2])
    IN  R(a[1] * (b[2] \div g) + b[1] * (a[2] \div g), (a[2] \div g) * b[2])
RSub(a, b) == RAdd(a, <<-b[1], b[2]>>)
RMul(a, b) ==
    LET g1 == Gcd(IAbs(a[1]), b[2])
        g2 == Gcd(IAbs(b[1]), a[2])
    IN  R((a[1] \div g1) * (b[1] \div g2), (a[2] \div g2) * (b[2] \div g1))
RDiv(a, b) ==
    IF b[1] < 0 THEN RMul(a, <<-b[2], -b[1]>>) ELSE RMul(a, <<b[2], b[1]>>)
RNeg(a) == <<-a[1], a[2]>>
RAbs(a) == <<IAbs(a[1]), a[2]>>
RLt(a, b) ==
    LET g == Gcd(a[2], b[2])
    IN  a[1] * (b[2] \div g) < b[1] * (a[2] \div g)
RLe(a, b) ==
    LET g == Gcd(a[2], b[2])
    IN  a[1] * (b[2] \div g) <= b[1] * (a[2] \div g)
RGt(a, b) == RLt(b, a)
RGe(a, b) == RLe(b, a)
\* Python's min(a, b) and max(a, b): the first argument wins a tie.
RMin(a, b) == IF RLt(b, a) THEN b ELSE a
RMax(a, b) == IF RGt(b, a) THEN b ELSE a
InUnit(a) == RLe(Zero, a) /\ RLe(a, One)

RECURSIVE ISqrtIter(_, _)
ISqrtIter(n, x) ==
    LET y == (x + n \div x) \div 2
    IN  IF y >= x THEN x ELSE ISqrtIter(n, y)

ISqrt(n) == IF n <= 0 THEN 0 ELSE ISqrtIter(n, n)

\* sqrt of a non-negative rational, rounded down to 1/100 (1/10 or 1 for
\* large numerators, to stay inside TLC's integers).
RSqrt(x) ==
    LET s == IF x[1] < 200000 THEN 100 ELSE IF x[1] < 20000000 THEN 10 ELSE 1
    IN  R(ISqrt((x[1] * s * s) \div x[2]), s)

\* round(x, 2): nearest multiple of 1/100, ties to even.
Round2(x) ==
    LET t == x[1] * 100
        q == t \div x[2]
        r2 == 2 * (t - q * x[2])
        up == \/ r2 > x[2]
              \/ (r2 = x[2] /\ q % 2 = 1)
    IN  R(IF up THEN q + 1 ELSE q, 100)

\* sum(s[lo..hi]), max(s[lo..hi]): split in halves, to keep the evaluation
\* shallow
RECURSIVE SumRange(_, _, _)
SumRange(s, lo, hi) ==
    IF lo > hi THEN 0
    ELSE IF lo = hi THEN s[lo]
    ELSE LET mid == (lo + hi) \div 2
             left == SumRange(s, lo, mid)
             right == SumRange(s, mid + 1, hi)
         IN  left + right

SumSeq(s) == SumRange(s, 1, Len(s))

RECURSIVE RSumRange(_, _, _)
RSumRange(s, lo, hi) ==
    IF lo > hi THEN Zero
    ELSE IF lo = hi THEN s[lo]
    ELSE LET mid == (lo + hi) \div 2
             left == RSumRange(s, lo, mid)
             right == RSumRange(s, mid + 1, hi)
         IN  RAdd(left, right)

RSumSeq(s) == RSumRange(s, 1, Len(s))

RECURSIVE MaxRange(_, _, _)
MaxRange(s, lo, hi) ==
    IF lo = hi THEN s[lo]
    ELSE LET mid == (lo + hi) \div 2
             left == MaxRange(s, lo, mid)
             right == MaxRange(s, mid + 1, hi)
         IN  IF right > left THEN right ELSE left

MaxSeq(s) == MaxRange(s, 1, Len(s))

\* s[-k:] of Python: the last k elements (all of s when it is shorter).
LastN(s, k) == IF Len(s) <= k THEN s ELSE SubSeq(s, Len(s) - k + 1, Len(s))

(***************************************************************************)
(* Helpers over rationals and tapes.  A tick is a record                   *)
(* [price, volume, aggressor_side, order_type]; its timestamp is never     *)
(* read by the detectors or strategies and is left out.                    *)
(***************************************************************************)
RMaxSet(S) == CHOOSE x \in S : \A y \in S : RLe(y, x)
RMinSet(S) == CHOOSE x \in S : \A y \in S : RLe(x, y)

Volumes(ticks) == [i \in 1..Len(ticks) |-> ticks[i].volume]
Prices(ticks) == [i \in 1..Len(ticks) |-> ticks[i].price]

\* np.mean over a non-empty sequence of integers.
Mean(vs) == R(SumSeq(vs), Len(vs))

\* Sum of squared deviations from the mean, then np.std (ddof = 0).
SqDev(vs) ==
    LET m == Mean(vs)
    IN  RSumSeq([i \in 1..Len(vs) |->
                    RMul(RSub(RInt(vs[i]), m), RSub(RInt(vs[i]), m))])

StdPop(vs) == RSqrt(RDiv(SqDev(vs), RInt(Len(vs))))

(***************************************************************************)
(* PatternDetector: registry and thresholds.                               *)
(***************************************************************************)
PatternOrder ==
    <<"absorption", "iceberg", "aggressive_entry", "hidden_liquidity",
      "stop_hunt", "momentum_shift", "volume_spike", "order_flow_imbalance">>

Patterns == {PatternOrder[i] : i \in 1..Len(PatternOrder)}

PatternIndex(p) == CHOOSE i \in 1..Len(PatternOrder) : PatternOrder[i] = p

InitialThresholds ==
    [p \in Patterns |->
        CASE p = "absorption" -> R(85, 100)
          [] p = "iceberg" -> R(80, 100)
          [] p = "aggressive_entry" -> R(90, 100)
          [] p = "hidden_liquidity" -> R(85, 100)
          [] p = "stop_hunt" -> R(95, 100)
          [] p = "momentum_shift" -> R(80, 100)
          [] p = "volume_spike" -> R(75, 100)
          [] p = "order_flow_imbalance" -> R(80, 100)]

(***************************************************************************)
(* _template_absorption                                                    *)
(***************************************************************************)
PriceLevels(recent) == {Round2(recent[i].price) : i \in 1..Len(recent)}

LevelVolume(recent, lvl) ==
    SumSeq([i \in 1..Len(recent) |->
              IF Round2(recent[i].price) = lvl THEN recent[i].volume ELSE 0])

\* a blend that rewards volume spread over the levels instead of volume
\* concentrated at one
AbsorptionBlendDispersion(max_volume, total_volume, price_range, imbalance_ratio) ==
    LET absorption_ratio ==
            IF total_volume > 0 THEN R(max_volume, total_volume) ELSE Zero
        stability_score == RSub(One, RMin(RDiv(price_range, Two), One))
        concentration_score ==
            RSub(One, RMin(RMul(absorption_ratio, RInt(3)), One))
        flow_score == RMin(RDiv(RAbs(imbalance_ratio), Two), One)
    IN  RAdd(RAdd(RMul(concentration_score, R(4, 10)),
                  RMul(stability_score, R(3, 10))),
             RMul(flow_score, R(3, 10)))

\* the blend of lines 161-174, given the largest level volume, the total
\* volume, the price range and the imbalance ratio
AbsorptionBlend(max_volume, total_volume, price_range, imbalance_ratio) ==
    LET absorption_ratio ==
            IF total_volume > 0 THEN R(max_volume, total_volume) ELSE Zero
        stability_score == RSub(One, RMin(RDiv(price_range, Two), One))
        concentration_score == RMin(RMul(absorption_ratio, RInt(3)), One)
        flow_score == RMin(RDiv(RAbs(imbalance_ratio), Two), One)
    IN  RAdd(RAdd(RMul(concentration_score, R(4, 10)),
                  RMul(stability_score, R(3, 10))),
             RMul(flow_score, R(3, 10)))

\* the template without its guard of lines 137-138: the window is whatever
\* the tape holds (max() of an empty window raises, which line 178 turns
\* into 0.0)
TemplateAbsorptionAnyLength(tape, of) ==
    LET recent == LastN(tape, 20)
        levels == PriceLevels(recent)
        max_volume == MaxSeq([i \in 1..Len(recent) |->
                                LevelVolume(recent, Round2(recent[i].price))])
        total_volume == SumSeq(Volumes(recent))
        price_range == RSub(RMaxSet(levels), RMinSet(levels))
    IN  IF Len(tape) = 0 THEN Zero
        ELSE AbsorptionBlend(max_volume, total_volume, price_range,
                             of.imbalance_ratio)

TemplateAbsorption(tape, of) ==
    IF Len(tape) < 20 THEN Zero
    ELSE
      LET recent == LastN(tape, 20)
          levels == PriceLevels(recent)
          max_volume == MaxSeq([i \in 1..Len(recent) |->
                                  LevelVolume(recent, Round2(recent[i].price))])
          total_volume == SumSeq(Volumes(recent))
          price_range == RSub(RMaxSet(levels), RMinSet(levels))
      IN  AbsorptionBlend(max_volume, total_volume, price_range,
                          of.imbalance_ratio)

(***************************************************************************)
(* _template_iceberg                                                       *)
(***************************************************************************)
\* maximal runs <<first, last>> of consecutive ticks at one rounded price,
\* kept when they hold at least 3 ticks
PriceRuns(recent) ==
    LET n == Len(recent)
        P(i) == Round2(recent[i].price)
        same(i, j) == \A k \in i..j : P(k) = P(i)
    IN  {<<i, j>> \in (1..n) \X (1..n) :
            /\ i <= j
            /\ same(i, j)
            /\ (i = 1 \/ P(i - 1) # P(i))
            /\ (j = n \/ P(j + 1) # P(j))
            /\ j - i + 1 >= 3}

VolumeConsistency(volumes) ==
    IF RGt(Mean(volumes), Zero)
    THEN RSub(One, RDiv(StdPop(volumes), Mean(volumes)))
    ELSE Zero

SideDominance(sequence) ==
    LET buy_count == Cardinality({i \in 1..Len(sequence) :
                                    sequence[i].aggressor_side = "buy"})
        other == Len(sequence) - buy_count
    IN  R(IF other > buy_count THEN other ELSE buy_count, Len(sequence))

HiddenLiquidityScore(of) == RMin(RDiv(of.hidden_liquidity, RInt(100)), One)

SequenceScore(sequence, of) ==
    RAdd(RAdd(RMul(VolumeConsistency(Volumes(sequence)), R(4, 10)),
              RMul(SideDominance(sequence), R(3, 10))),
         RMul(HiddenLiquidityScore(of), R(3, 10)))

TemplateIceberg(tape, of) ==
    IF Len(tape) < 30 THEN Zero
    ELSE
      LET recent == LastN(tape, 30)
          runs == PriceRuns(recent)
          scores == {SequenceScore(SubSeq(recent, r[1], r[2]), of) : r \in runs}
      IN  IF runs = {} THEN Zero
          ELSE RMaxSet(scores \cup {Zero})

(***************************************************************************)
(* _template_aggressive_entry                                              *)
(***************************************************************************)
TemplateAggressiveEntry(tape, of) ==
    IF Len(tape) < 10 THEN Zero
    ELSE
      LET recent == LastN(tape, 10)
          n == Len(recent)
          volumes == Volumes(recent)
          avg_volume == Mean(volumes)
          max_volume == RInt(MaxSeq(volumes))
          volume_spike_ratio ==
              IF RGt(avg_volume, Zero) THEN RDiv(max_volume, avg_volume)
              ELSE One
          volume_score ==
              RMin(RDiv(RSub(volume_spike_ratio, One), RInt(3)), One)
          market_orders ==
              Cardinality({i \in 1..n : recent[i].order_type = "market"})
          urgency_score == R(market_orders, n)
          aggression_score == RMin(RAbs(of.aggression_score), One)
          \* sum of the n-1 consecutive price changes, divided by n-1
          momentum ==
              RDiv(RSumSeq([i \in 1..(n - 1) |->
                              RSub(recent[i + 1].price, recent[i].price)]),
                   RInt(n - 1))
          momentum_score == RMin(RDiv(RAbs(momentum), Two), One)
      IN  RAdd(RAdd(RMul(volume_score, R(3, 10)),
                    RMul(urgency_score, R(3, 10))),
               RAdd(RMul(aggression_score, R(2, 10)),
                    RMul(momentum_score, R(2, 10))))

(***************************************************************************)
(* _template_hidden_liquidity                                              *)
(***************************************************************************)
PriceRejections(recent) ==
    Cardinality({i \in 3..Len(recent) :
        LET prev_trend == RSub(recent[i - 1].price, recent[i - 2].price)
            current_move == RSub(recent[i].price, recent[i - 1].price)
        IN  /\ RGt(RAbs(prev_trend), Half)
            /\ RLt(RMul(current_move, prev_trend), Zero)})

TemplateHiddenLiquidity(tape, of) ==
    LET confidence == RMin(RDiv(of.hidden_liquidity, RInt(100)), One)
    IN  IF Len(tape) >= 15
        THEN LET recent == LastN(tape, 15)
                 denom == IF Len(recent) - 2 > 1 THEN Len(recent) - 2 ELSE 1
                 rejection_ratio == R(PriceRejections(recent), denom)
                 rejection_score == RMin(RMul(rejection_ratio, Two), One)
             IN  RAdd(RMul(confidence, R(7, 10)),
                      RMul(rejection_score, R(3, 10)))
        ELSE confidence

(***************************************************************************)
(* _template_stop_hunt                                                     *)
(***************************************************************************)
\* the score of the segment around Python index i (tick i + 1 here), or 0
\* when the segment is no stop hunt
StopHuntAt(recent, i) ==
    LET quick_move == RSub(recent[i + 1].price, recent[i - 4].price)
        reversal_move == RSub(recent[i + 6].price, recent[i + 1].price)
    IN  IF /\ RGt(RAbs(quick_move), One)
           /\ RGt(RAbs(reversal_move), RMul(RAbs(quick_move), R(6, 10)))
           /\ RLt(RMul(quick_move, reversal_move), Zero)
        THEN LET quick_move_volumes ==
                     [k \in 1..5 |-> recent[i - 5 + k].volume]
                 avg_volume == Mean(Volumes(recent))
                 volume_spike ==
                     IF RGt(avg_volume, Zero)
                     THEN RDiv(RInt(MaxSeq(quick_move_volumes)), avg_volume)
                     ELSE One
                 volume_score == RMin(RDiv(RSub(volume_spike, One), Two), One)
                 reversal_strength ==
                     RDiv(RAbs(reversal_move), RAbs(quick_move))
                 strength_score == RMin(reversal_strength, One)
             IN  RAdd(RMul(volume_score, Half), RMul(strength_score, Half))
        ELSE Zero

TemplateStopHunt(tape, of) ==
    IF Len(tape) < 25 THEN Zero
    ELSE
      LET recent == LastN(tape, 25)
      IN  RMaxSet({StopHuntAt(recent, i) : i \in 10..(Len(recent) - 6)}
                  \cup {Zero})

(***************************************************************************)
(* _template_momentum_shift                                                *)
(***************************************************************************)
\* calculate_momentum: volume-weighted mean of the price changes
CalculateMomentum(seg) ==
    IF Len(seg) < 2 THEN Zero
    ELSE
      LET volume_weighted_changes ==
              RSumSeq([i \in 1..(Len(seg) - 1) |->
                          RMul(RSub(seg[i + 1].price, seg[i].price),
                               RInt(seg[i + 1].volume))])
          total_volume ==
              SumSeq([i \in 1..(Len(seg) - 1) |-> seg[i + 1].volume])
      IN  IF total_volume > 0
          THEN RDiv(volume_weighted_changes, RInt(total_volume))
          ELSE Zero

TemplateMomentumShift(tape, of) ==
    IF Len(tape) < 20 THEN Zero
    ELSE
      LET recent == LastN(tape, 20)
          mid_point == Len(recent) \div 2
          momentum_1 == CalculateMomentum(SubSeq(recent, 1, mid_point))
          momentum_2 ==
              CalculateMomentum(SubSeq(recent, mid_point + 1, Len(recent)))
      IN  IF /\ RGt(RAbs(momentum_1), R(1, 10))
             /\ RGt(RAbs(momentum_2), R(1, 10))
             /\ RLt(RMul(momentum_1, momentum_2), Zero)
          THEN LET shift_magnitude == RAbs(RSub(momentum_2, momentum_1))
                   confidence == RMin(RDiv(shift_magnitude, Two), One)
                   flow_confirmation ==
                       RMin(RDiv(RAbs(of.cumulative_delta), RInt(100)),
                            R(3, 10))
               IN  RMin(RAdd(confidence, flow_confirmation), One)
          ELSE Zero

(***************************************************************************)
(* _template_volume_spike                                                  *)
(***************************************************************************)
\* volumes.index(max_volume), as a position 1..Len
FirstIndexOf(vs, v) == CHOOSE i \in 1..Len(vs) :
                          vs[i] = v /\ \A j \in 1..(i - 1) : vs[j] # v

TemplateVolumeSpike(tape, of) ==
    IF Len(tape) < 15 THEN Zero
    ELSE
      LET recent == LastN(tape, 15)
          volumes == Volumes(recent)
          avg_volume == Mean(volumes)
          std_volume == StdPop(volumes)
          max_volume == MaxSeq(volumes)
          volume_spike_score ==
              IF RGt(std_volume, Zero)
              THEN RMin(RDiv(RDiv(RSub(RInt(max_volume), avg_volume),
                                  std_volume), RInt(3)), One)
              ELSE Zero
          max_vol_index == FirstIndexOf(volumes, max_volume)
          impact_score ==
              IF max_vol_index > 1 /\ max_vol_index < Len(recent)
              THEN RMin(RAbs(RSub(recent[max_vol_index + 1].price,
                                  recent[max_vol_index - 1].price)), One)
              ELSE Zero
      IN  RAdd(RMul(volume_spike_score, R(7, 10)),
               RMul(impact_score, R(3, 10)))

(***************************************************************************)
(* _template_order_flow_imbalance                                          *)
(***************************************************************************)
SideVolume(recent, side) ==
    SumSeq([i \in 1..Len(recent) |->
              IF recent[i].aggressor_side = side THEN recent[i].volume ELSE 0])

TemplateOrderFlowImbalance(tape, of) ==
    LET confidence == RMin(RDiv(RAbs(of.imbalance_ratio), Two), One)
    IN  IF Len(tape) >= 10
        THEN LET recent == LastN(tape, 10)
                 buy_volume == SideVolume(recent, "buy")
                 sell_volume == SideVolume(recent, "sell")
                 total_volume == buy_volume + sell_volume
             IN  IF total_volume > 0
                 THEN LET tape_imbalance ==
                              R(IAbs(buy_volume - sell_volume), total_volume)
                          tape_score == RMin(RMul(tape_imbalance, Two), One)
                      IN  RAdd(RMul(confidence, R(6, 10)),
                               RMul(tape_score, R(4, 10)))
                 ELSE confidence
        ELSE confidence

(***************************************************************************)
(* The registry (_initialize_pattern_templates) and _detect_single_pattern *)
(***************************************************************************)
\* pattern_templates[p](market_data, tape_data, order_flow): no template
\* reads market_data
DetectorFunc(p, tape, of) ==
    CASE p = "absorption" -> TemplateAbsorption(tape, of)
      [] p = "iceberg" -> TemplateIceberg(tape, of)
      [] p = "aggressive_entry" -> TemplateAggressiveEntry(tape, of)
      [] p = "hidden_liquidity" -> TemplateHiddenLiquidity(tape, of)
      [] p = "stop_hunt" -> TemplateStopHunt(tape, of)
      [] p = "momentum_shift" -> TemplateMomentumShift(tape, of)
      [] p = "volume_spike" -> TemplateVolumeSpike(tape, of)
      [] p = "order_flow_imbalance" -> TemplateOrderFlowImbalance(tape, of)

\* a clamp that forgets the lower bound
ClampAbove(confidence) == RMin(One, confidence)

\* max(0.0, min(1.0, confidence))
Clamp(confidence) == RMax(Zero, RMin(One, confidence))

\* a _detect_single_pattern whose handler is missing: the score of a
\* template that raises is not replaced
DetectSinglePatternUncaught(p, tape, of, raises) ==
    RMax(Zero, RMin(One, DetectorFunc(p, tape, of)))

\* _detect_single_pattern: the clamped template score; a template that
\* raises is caught by its own handler (or by the one at line 126) and
\* scores 0.0
DetectSinglePattern(p, tape, of, raises) ==
    IF raises THEN Zero ELSE Clamp(DetectorFunc(p, tape, of))

(***************************************************************************)
(* Settings (config.py) and SignalGenerator.__init__                       *)
(***************************************************************************)
CONFIDENCE_THRESHOLD == R(90, 100)
MIN_PATTERN_CONFIDENCE == R(85, 100)
TARGET_POINTS == R(2, 1)
STOP_LOSS_POINTS == R(15, 10)

\* config.py lines 99-103, the only validator of a numeric setting: TRUE
\* when the value is accepted, FALSE when ValueError is raised
validate_confidence_threshold(v) == RLe(Zero, v) /\ RLe(v, One)

\* Settings() of line 169, run when config is imported, on the values the
\* environment supplies; constructed is FALSE when the constructor raised,
\* in which case the import fails and the engine never starts
Settings(env) ==
    [constructed |-> validate_confidence_threshold(env.CONFIDENCE_THRESHOLD),
     CONFIDENCE_THRESHOLD |-> env.CONFIDENCE_THRESHOLD,
     MIN_PATTERN_CONFIDENCE |-> env.MIN_PATTERN_CONFIDENCE]

\* an environment that sets neither value: the class defaults
InitialSettings ==
    Settings([CONFIDENCE_THRESHOLD |-> CONFIDENCE_THRESHOLD,
              MIN_PATTERN_CONFIDENCE |-> MIN_PATTERN_CONFIDENCE])

ModelNames == <<"pattern", "confidence", "ensemble">>

InitialModelWeights ==
    [m \in {"pattern_model", "confidence_model", "ensemble_model"} |->
        CASE m = "pattern_model" -> R(4, 10)
          [] m = "confidence_model" -> R(3, 10)
          [] m = "ensemble_model" -> R(3, 10)]

Signals == <<"BUY", "SELL", "HOLD">>

(***************************************************************************)
(* _engineer_features                                                      *)
(***************************************************************************)
\* pandas Series.std(): the sample standard deviation (ddof = 1)
\* (a single value has none: NaN, which no strategy reads)
NaN == <<0, 0>>

StdSampleR(xs) ==
    IF Len(xs) < 2 THEN NaN
    ELSE
      LET n == Len(xs)
          m == RDiv(RSumSeq(xs), RInt(n))
          sq == RSumSeq([i \in 1..n |->
                            RMul(RSub(xs[i], m), RSub(xs[i], m))])
      IN  RSqrt(RDiv(sq, RInt(n - 1)))

RSeqOfInts(vs) == [i \in 1..Len(vs) |-> RInt(vs[i])]

ZeroVector(n) == [i \in 1..n |-> Zero]

\* lines 173-200: the nine tape features over the last 50 ticks
TapeFeatures(tape) ==
    IF tape = <<>> THEN ZeroVector(9)
    ELSE
      LET df == LastN(tape, 50)
          n == Len(df)
          vols == Volumes(df)
          signed == [i \in 1..n |->
                        IF df[i].aggressor_side = "buy" THEN df[i].volume
                        ELSE -df[i].volume]
          buys == Cardinality({i \in 1..n : df[i].aggressor_side = "buy"})
          price_changes ==
              [i \in 1..(n - 1) |-> RSub(df[i + 1].price, df[i].price)]
          m == Len(price_changes)
          ups == Cardinality({i \in 1..m : RGt(price_changes[i], Zero)})
      IN  << RInt(SumSeq(vols)),
             Mean(vols),
             StdSampleR(RSeqOfInts(vols)),
             RInt(SumSeq(signed)),
             R(buys, n),
             RDiv(RSumSeq(price_changes), RInt(m)),
             StdSampleR(price_changes),
             R(ups, m),
             RSub(df[n].price, df[1].price) >>

\* lines 213-236: moving averages and volume ratio over the last 20 ticks
TechnicalFeatures(tape) ==
    IF Len(tape) >= 20
    THEN LET prices == Prices(LastN(tape, 20))
             volumes == Volumes(LastN(tape, 20))
             sma_5 == RDiv(RSumSeq(LastN(prices, 5)), RInt(5))
             sma_10 == RDiv(RSumSeq(LastN(prices, 10)), RInt(10))
             vol_avg == Mean(volumes)
             vol_current == volumes[Len(volumes)]
         IN  << sma_5, sma_10, RSub(sma_5, sma_10),
                IF RGt(vol_avg, Zero) THEN RDiv(RInt(vol_current), vol_avg)
                ELSE One >>
    ELSE ZeroVector(4)

\* a one-tick tape has no price change: the up-tick ratio of line 195
\* divides by zero, and the handler of line 249 takes over
FeaturesFault(tape) == Len(tape) = 1

EngineerFeatures(mk, tape, of, now) ==
    IF FeaturesFault(tape) THEN ZeroVector(30)
    ELSE
         << mk.price, mk.bid, mk.ask, mk.spread, RInt(mk.volume) >>
      \o TapeFeatures(tape)
      \o << RInt(of.bid_volume), RInt(of.ask_volume), of.imbalance_ratio,
            of.aggression_score, of.hidden_liquidity, of.cumulative_delta >>
      \o TechnicalFeatures(tape)
      \o << RInt(now.hour), RInt(now.minute), RInt(now.weekday),
            RInt(IF 9 <= now.hour /\ now.hour < 16 THEN 1 ELSE 0) >>

(***************************************************************************)
(* The three scoring strategies.  A vote is [signal, conf]; features[k] of *)
(* the source is f[k + 1] here.                                            *)
(***************************************************************************)
Vote(s, c) == [signal |-> s, conf |-> c]

\* a selection that keeps the last entry of maximum value (a loop with >=)
BestPatternLast(patterns) ==
    CHOOSE p \in DOMAIN patterns :
        /\ \A q \in DOMAIN patterns : RLe(patterns[q], patterns[p])
        /\ \A q \in DOMAIN patterns :
              patterns[q] = patterns[p] => PatternIndex(q) <= PatternIndex(p)

\* max(patterns.items(), key=lambda x: x[1]): the first entry of maximum
\* value in insertion order, which detect_patterns makes the registry order
BestPattern(patterns) ==
    CHOOSE p \in DOMAIN patterns :
        /\ \A q \in DOMAIN patterns : RLe(patterns[q], patterns[p])
        /\ \A q \in DOMAIN patterns :
              patterns[q] = patterns[p] => PatternIndex(p) <= PatternIndex(q)

\* a pattern strategy whose SELL branch names a registered pattern
PredictPatternModelSellsEntry(f, patterns, raises) ==
    IF raises THEN Vote("HOLD", Zero)
    ELSE IF DOMAIN patterns = {} THEN Vote("HOLD", Half)
    ELSE
      LET pattern_name == BestPattern(patterns)
          pattern_confidence == patterns[pattern_name]
      IN  IF pattern_name = "absorption"
                /\ RGt(pattern_confidence, R(85, 100))
          THEN Vote("BUY", pattern_confidence)
          ELSE IF pattern_name = "iceberg"
                    /\ RGt(pattern_confidence, R(80, 100))
          THEN Vote("BUY", pattern_confidence)
          ELSE IF pattern_name = "aggressive_entry"
                    /\ RGt(pattern_confidence, R(85, 100))
          THEN Vote("SELL", pattern_confidence)
          ELSE IF pattern_name = "stop_hunt"
                    /\ RGt(pattern_confidence, R(90, 100))
          THEN Vote("BUY", pattern_confidence)
          ELSE Vote("HOLD", pattern_confidence)

\* a pattern strategy whose sub-thresholds are inclusive
PredictPatternModelInclusive(f, patterns, raises) ==
    IF raises THEN Vote("HOLD", Zero)
    ELSE IF DOMAIN patterns = {} THEN Vote("HOLD", Half)
    ELSE
      LET pattern_name == BestPattern(patterns)
          pattern_confidence == patterns[pattern_name]
      IN  IF pattern_name = "absorption"
                /\ RGe(pattern_confidence, R(85, 100))
          THEN Vote("BUY", pattern_confidence)
          ELSE IF pattern_name = "iceberg"
                    /\ RGe(pattern_confidence, R(80, 100))
          THEN Vote("BUY", pattern_confidence)
          ELSE IF pattern_name = "aggressive_sell"
                    /\ RGe(pattern_confidence, R(85, 100))
          THEN Vote("SELL", pattern_confidence)
          ELSE IF pattern_name = "stop_hunt"
                    /\ RGe(pattern_confidence, R(90, 100))
          THEN Vote("BUY", pattern_confidence)
          ELSE Vote("HOLD", pattern_confidence)

PredictPatternModel(f, patterns, raises) ==
    IF raises THEN Vote("HOLD", Zero)
    ELSE IF DOMAIN patterns = {} THEN Vote("HOLD", Half)
    ELSE
      LET pattern_name == BestPattern(patterns)
          pattern_confidence == patterns[pattern_name]
      IN  IF pattern_name = "absorption"
                /\ RGt(pattern_confidence, R(85, 100))
          THEN Vote("BUY", pattern_confidence)
          ELSE IF pattern_name = "iceberg"
                    /\ RGt(pattern_confidence, R(80, 100))
          THEN Vote("BUY", pattern_confidence)
          ELSE IF pattern_name = "aggressive_sell"
                    /\ RGt(pattern_confidence, R(85, 100))
          THEN Vote("SELL", pattern_confidence)
          ELSE IF pattern_name = "stop_hunt"
                    /\ RGt(pattern_confidence, R(90, 100))
          THEN Vote("BUY", pattern_confidence)
          ELSE Vote("HOLD", pattern_confidence)

PredictConfidenceModel(f, patterns, raises) ==
    IF raises THEN Vote("HOLD", Zero)
    ELSE IF Len(f) < 10 THEN Vote("HOLD", Zero)
    ELSE
      LET volume_score ==
              IF RGt(f[5], Zero) THEN RMin(RDiv(f[5], RInt(100)), One)
              ELSE Zero
          spread_score ==
              IF RGt(f[4], Zero)
              THEN RMax(Zero, RSub(One, RDiv(f[4], Two)))
              ELSE Zero
          flow_score ==
              IF Len(f) > 15
              THEN LET imbalance == IF Len(f) > 12 THEN RAbs(f[13]) ELSE Zero
                       aggression == IF Len(f) > 13 THEN f[14] ELSE Zero
                   IN  RDiv(RAdd(imbalance, aggression), Two)
              ELSE Zero
          overall_confidence ==
              RAdd(RAdd(RMul(volume_score, R(3, 10)),
                        RMul(spread_score, R(2, 10))),
                   RMul(flow_score, R(5, 10)))
      IN  IF RGt(overall_confidence, R(85, 100))
          THEN IF Len(f) > 13 /\ RGt(f[14], R(7, 10))
               THEN Vote("BUY", overall_confidence)
               ELSE IF Len(f) > 13 /\ RLt(f[14], R(-7, 10))
               THEN Vote("SELL", overall_confidence)
               ELSE Vote("HOLD", overall_confidence)
          ELSE Vote("HOLD", overall_confidence)

PredictEnsembleModel(f, raises) ==
    IF raises THEN Vote("HOLD", Zero)
    ELSE IF Len(f) < 5 THEN Vote("HOLD", Half)
    ELSE
      LET price_momentum == IF Len(f) > 1 THEN RSub(f[1], f[2]) ELSE Zero
          volume_factor ==
              IF RGt(f[5], Zero) THEN RMin(RDiv(f[5], RInt(50)), Two)
              ELSE One
          ensemble_score ==
              RMin(RDiv(RMul(RAbs(price_momentum), volume_factor), RInt(10)),
                   One)
      IN  IF RGt(ensemble_score, R(8, 10))
          THEN Vote(IF RGt(price_momentum, Zero) THEN "BUY" ELSE "SELL",
                    ensemble_score)
          ELSE Vote("HOLD", ensemble_score)

(***************************************************************************)
(* _combine_predictions                                                    *)
(***************************************************************************)
\* model_weights.get(f'{model_name}_model', 0.33)
WeightOf(weights, model_name) ==
    LET key == CASE model_name = "pattern" -> "pattern_model"
                 [] model_name = "confidence" -> "confidence_model"
                 [] model_name = "ensemble" -> "ensemble_model"
    IN  IF key \in DOMAIN weights THEN weights[key] ELSE R(33, 100)

\* predictions, in the insertion order of the dict of line 357
Predictions(pattern_pred, confidence_pred, ensemble_pred) ==
    [m \in {"pattern", "confidence", "ensemble"} |->
        CASE m = "pattern" -> pattern_pred
          [] m = "confidence" -> confidence_pred
          [] m = "ensemble" -> ensemble_pred]

\* signal_votes[s] after the loop of lines 367-370
SignalVotes(weights, preds, s) ==
    RSumSeq([i \in 1..Len(ModelNames) |->
                IF preds[ModelNames[i]].signal = s
                THEN RMul(WeightOf(weights, ModelNames[i]),
                          preds[ModelNames[i]].conf)
                ELSE Zero])

TotalConfidence(weights, preds) ==
    RSumSeq([i \in 1..Len(ModelNames) |->
                RMul(WeightOf(weights, ModelNames[i]),
                     preds[ModelNames[i]].conf)])

\* a winner taken from the smallest bucket
WinningSignalSmallest(weights, preds) ==
    LET v(i) == SignalVotes(weights, preds, Signals[i])
        worst == CHOOSE i \in 1..3 :
                     /\ \A j \in 1..3 : RLe(v(i), v(j))
                     /\ \A j \in 1..(i - 1) : RLt(v(i), v(j))
    IN  Signals[worst]

\* max(signal_votes.items(), key=lambda x: x[1])[0]: the first of BUY, SELL,
\* HOLD whose bucket is largest
WinningSignal(weights, preds) ==
    LET v(i) == SignalVotes(weights, preds, Signals[i])
        best == CHOOSE i \in 1..3 :
                    /\ \A j \in 1..3 : RLe(v(j), v(i))
                    /\ \A j \in 1..(i - 1) : RLt(v(j), v(i))
    IN  Signals[best]

SumOfWeights(weights) ==
    RAdd(RAdd(weights["pattern_model"], weights["confidence_model"]),
         weights["ensemble_model"])

\* total_confidence / sum(self.model_weights.values())
WeightedConfidence(weights, preds) ==
    RDiv(TotalConfidence(weights, preds), SumOfWeights(weights))

\* a gate that forces HOLD without the 0.5 floor
ApplyGateNoFloor(final_signal, final_confidence, min_conf) ==
    IF RLt(final_confidence, min_conf)
    THEN Vote("HOLD", final_confidence)
    ELSE Vote(final_signal, final_confidence)

\* lines 377-382: the minimum-confidence gate
ApplyGate(final_signal, final_confidence, min_conf) ==
    IF RLt(final_confidence, min_conf)
    THEN Vote("HOLD", RMax(final_confidence, Half))
    ELSE Vote(final_signal, final_confidence)

CombinePredictions(weights, min_conf, pattern_pred, confidence_pred, ensemble_pred) ==
    LET preds == Predictions(pattern_pred, confidence_pred, ensemble_pred)
    IN  ApplyGate(WinningSignal(weights, preds),
                  WeightedConfidence(weights, preds), min_conf)

(***************************************************************************)
(* _calculate_risk_reward, _generate_reasoning, _detect_market_regime      *)
(***************************************************************************)
\* a risk calculator that puts the BUY levels on the SELL side
CalculateRiskRewardSwapped(current_price, signal, confidence) ==
    IF signal = "HOLD" THEN <<current_price, current_price>>
    ELSE
      LET confidence_multiplier == RMin(RMul(confidence, R(15, 10)), Two)
          adjusted_target == RMul(TARGET_POINTS, confidence_multiplier)
          adjusted_stop == RMul(STOP_LOSS_POINTS, RSub(Two, confidence))
      IN  <<Round2(RAdd(current_price, adjusted_stop)),
            Round2(RSub(current_price, adjusted_target))>>

CalculateRiskReward(current_price, signal, confidence) ==
    IF signal = "HOLD" THEN <<current_price, current_price>>
    ELSE
      LET base_stop == STOP_LOSS_POINTS
          base_target == TARGET_POINTS
          confidence_multiplier == RMin(RMul(confidence, R(15, 10)), Two)
          adjusted_target == RMul(base_target, confidence_multiplier)
          adjusted_stop == RMul(base_stop, RSub(Two, confidence))
      IN  IF signal = "BUY"
          THEN <<Round2(RSub(current_price, adjusted_stop)),
                 Round2(RAdd(current_price, adjusted_target))>>
          ELSE <<Round2(RAdd(current_price, adjusted_stop)),
                 Round2(RSub(current_price, adjusted_target))>>

\* the parts joined by ". " in line 445; the pattern confidence is printed
\* with two decimals
GenerateReasoning(patterns, signal, confidence) ==
    LET pattern_part ==
            IF DOMAIN patterns # {}
            THEN << <<"Primary pattern", BestPattern(patterns),
                      Round2(patterns[BestPattern(patterns)])>> >>
            ELSE <<>>
        signal_part ==
            IF signal = "BUY" THEN "Bullish signals detected"
            ELSE IF signal = "SELL" THEN "Bearish signals detected"
            ELSE "No clear directional bias"
        confidence_part ==
            IF RGt(confidence, R(9, 10)) THEN "Very high confidence signal"
            ELSE IF RGt(confidence, R(8, 10)) THEN "High confidence signal"
            ELSE IF RGt(confidence, R(7, 10))
            THEN "Moderate confidence signal"
            ELSE "Low confidence"
    IN  pattern_part \o <<signal_part, confidence_part>>

\* np.std(x) < c is decided on the variance, without the square root
DetectMarketRegime(tape) ==
    IF Len(tape) < 10 THEN "unknown"
    ELSE
      LET recent == LastN(tape, 20)
          ps == Prices(recent)
          mean_p == RDiv(RSumSeq(ps), RInt(Len(ps)))
          variance ==
              RDiv(RSumSeq([i \in 1..Len(ps) |->
                              RMul(RSub(ps[i], mean_p), RSub(ps[i], mean_p))]),
                   RInt(Len(ps)))
          avg_volume == Mean(Volumes(recent))
      IN  IF RLt(variance, R(1, 4)) /\ RLt(avg_volume, RInt(50))
          THEN "quiet"
          ELSE IF RGt(variance, RInt(4)) /\ RGt(avg_volume, RInt(100))
          THEN "volatile"
          ELSE IF RGt(avg_volume, RInt(150)) THEN "active"
          ELSE "normal"

(***************************************************************************)
(* Request data: tapes, order-flow snapshots and market snapshots.         *)
(* A tape is built from a shape and a length; k is a tick's distance from  *)
(* the end of the tape, so the detectors' trailing windows see the shape.  *)
(***************************************************************************)
Tick(p, v, side, ot) ==
    [price |-> p, volume |-> v, aggressor_side |-> side, order_type |-> ot]

TickAt(shape, n, i) ==
    LET k == n - i
    IN  CASE shape = "flat" -> Tick(R(458025, 100), 50, "buy", "market")
          [] shape = "runs" ->
                Tick(R(1000 + 2 * (k \div 3), 10),
                     IF k % 3 = 0 THEN 100 ELSE 1, "sell", "limit")
          [] shape = "zigzag" ->
                Tick(IF k % 2 = 0 THEN R(100004, 1000) ELSE R(100804, 1000),
                     10 + 5 * (k % 4),
                     IF k % 2 = 0 THEN "buy" ELSE "sell",
                     IF k % 3 = 0 THEN "market" ELSE "limit")
          [] shape = "hunt" ->
                LET j == 24 - k
                IN  Tick(IF j <= 7 THEN R(100, 1)
                         ELSE IF j <= 12 THEN R(1000 + 4 * (j - 7), 10)
                         ELSE IF j <= 17 THEN R(10200 - 36 * (j - 12), 100)
                         ELSE R(1002, 10),
                         IF j = 10 THEN 300 ELSE 20,
                         IF j <= 12 THEN "buy" ELSE "sell", "stop")
          [] shape = "shift" ->
                LET j == 19 - k
                IN  Tick(IF j < 0 THEN R(100, 1)
                         ELSE IF j <= 9 THEN R(1000 + 9 * j, 10)
                         ELSE R(1081 - 9 * (j - 9), 10),
                         30, IF j <= 9 THEN "buy" ELSE "sell", "market")
          [] shape = "spike" ->
                Tick(IF k < 7 THEN R(1009, 10) ELSE R(100, 1),
                     IF k = 7 THEN 500 ELSE 10 + (k % 2),
                     "buy", IF k = 7 THEN "market" ELSE "limit")
          [] shape = "drift" ->
                Tick(IF k >= 20 THEN R(100, 1) ELSE R(2000 + (20 - k), 20),
                     50, "buy", "market")
          [] shape = "ramp" ->
                Tick(R(200 + i, 2), 20 + i, "buy", "market")
          [] shape = "levels" ->
                Tick(R(1000 + (k % 5), 10),
                     IF k % 5 = 0 THEN 10 + 2 * (n - 20) ELSE 10,
                     "buy", "limit")
          [] shape = "steps" ->
                Tick(R(1000 + 3 * (k % 5), 10),
                     IF k % 5 = 0 THEN 10 + 2 * (n - 20) ELSE 10,
                     "buy", "limit")

Tape(shape, n) == [i \in 1..n |-> TickAt(shape, n, i)]

OrderFlow(name) ==
    LET F(bv, av, ir, ag, hl, cd) ==
            [bid_volume |-> bv, ask_volume |-> av, imbalance_ratio |-> ir,
             aggression_score |-> ag, hidden_liquidity |-> hl,
             cumulative_delta |-> cd]
    IN  CASE name = "zero" -> F(0, 0, Zero, Zero, Zero, Zero)
          [] name = "imb" -> F(0, 0, R(18, 10), Zero, Zero, Zero)
          [] name = "hid" -> F(0, 0, Zero, Zero, RInt(100), Zero)
          [] name = "neg" ->
                F(10, 20, RInt(-3), RInt(-2), RInt(-50), RInt(-500))
          [] name = "big" ->
                F(500, 100, RInt(10), RInt(5), RInt(1000), RInt(1000))
          [] name = "mid" ->
                F(40, 30, R(17, 10), R(9, 10), RInt(60), RInt(20))

Market(name) ==
    LET M(p, b, a, s, v) ==
            [symbol |-> "WDO", price |-> p, bid |-> b, ask |-> a,
             spread |-> s, volume |-> v]
    IN  CASE name = "m1" ->
                M(R(458025, 100), RInt(4580), R(45805, 10), R(5, 10), 150)
          [] name = "m3" ->
                M(R(10025, 100), R(9625, 100), R(1005, 10), R(5, 10), 150)
          [] name = "wide" ->
                M(R(10025, 100), R(9525, 100), R(10525, 100), RInt(10), 200)
          [] name = "sellside" ->
                M(R(10025, 100), R(10525, 100), R(10530, 100), R(5, 100), 120)
          [] name = "quiet" ->
                M(R(10025, 100), R(1002, 10), R(1003, 10), R(1, 10), 0)
          [] name = "odd" ->
                M(R(100004, 1000), RInt(100), R(1001, 10), R(1, 10), 10)

\* datetime.now() as read by _engineer_features
Nows ==
    { [hour |-> 10, minute |-> 30, weekday |-> 2],
      [hour |-> 20, minute |-> 15, weekday |-> 5] }

In(shape, n, of, mk) == [shape |-> shape, len |-> n, of |-> of, mk |-> mk]

\* the MarketAnalysisRequest an input descriptor stands for
Request(d) ==
    [market_data |-> Market(d.mk), tape_data |-> Tape(d.shape, d.len),
     order_flow |-> OrderFlow(d.of)]

(***************************************************************************)
(* PatternDetector's analysis methods (the /detect_patterns endpoint)      *)
(***************************************************************************)
AnalyzeMarketRegime(mk) ==
    IF RLt(mk.spread, Half) /\ mk.volume > 100 THEN "tight_active"
    ELSE IF RGt(mk.spread, R(15, 10)) THEN "wide_illiquid"
    ELSE IF mk.volume > 200 THEN "high_volume"
    ELSE IF mk.volume < 20 THEN "low_volume"
    ELSE "normal"

AnalyzeVolatility(tape) ==
    IF Len(tape) < 10 THEN "unknown"
    ELSE
      LET ps == Prices(LastN(tape, 10))
          mean_p == RDiv(RSumSeq(ps), RInt(Len(ps)))
          variance ==
              RDiv(RSumSeq([i \in 1..Len(ps) |->
                              RMul(RSub(ps[i], mean_p), RSub(ps[i], mean_p))]),
                   RInt(Len(ps)))
      IN  IF RLt(variance, R(1, 4)) THEN "low"
          ELSE IF RGt(variance, RInt(4)) THEN "high"
          ELSE IF RGt(variance, One) THEN "medium"
          ELSE "normal"

GenerateRecommendation(patterns) ==
    IF DOMAIN patterns = {} THEN <<"No clear patterns">>
    ELSE <<BestPattern(patterns), Round2(patterns[BestPattern(patterns)])>>

(***************************************************************************)
(* State                                                                   *)
(***************************************************************************)
\* BackendAuthenticator.__init__: no tokens yet ("None"; the backend's
\* tokens are non-empty strings).  pc is the position of
\* the make_authenticated_request call in progress, site the place that
\* called refresh_tokens or authenticate, requests_sent the number of
\* session.request calls of this invocation, fallbacks the number of
\* authenticate calls made by the refresh_tokens call in progress
BackendAuthenticator ==
    [pc |-> "idle", site |-> "none", access_token |-> "None",
     refresh_token |-> "None", token_expires_at |-> FALSE,
     requests_sent |-> 0, fallbacks |-> 0, status |-> "none",
     refreshed |-> FALSE]

VARIABLES
    pc,                     \* where each request's coroutine stands
    kind,                   \* the endpoint each request came in on
    req,                    \* the request body
    task,                   \* detect_patterns: each detector task's state
    result,                 \* detect_patterns: each task's returned score
    raised,                 \* detector templates that raised in this call
    detected,               \* the mapping detect_patterns returned
    gs,                     \* generate_signal's locals
    signal,                 \* the TradingSignal generate_signal returned
    response,               \* what the endpoint answered
    signals_generated,      \* SignalGenerator.signals_generated
    successful_predictions, \* SignalGenerator.successful_predictions
    total_profit_points,    \* SignalGenerator.total_profit_points
    model_weights,          \* SignalGenerator.model_weights
    settings,               \* config.settings, the module's global
    thresholds,             \* PatternDetector.thresholds
    detection_history,      \* PatternDetector.detection_history
    auth                    \* the BackendAuthenticator and its call in progress

vars ==
    <<pc, kind, req, task, result, raised, detected, gs, signal, response,
      signals_generated, successful_predictions, total_profit_points,
      model_weights, settings, thresholds, detection_history, auth>>

detVars == <<task, result, raised, detected>>
genFields ==
    <<successful_predictions, total_profit_points, model_weights, settings>>
detFields == <<thresholds, detection_history>>

Reqs == {"r1", "r2"}

MaxSignals == 2

NoPatterns == [p \in {} |-> Zero]

NoVote == Vote("NONE", Zero)

NoRequest ==
    [market_data |-> Market("quiet"), tape_data |-> <<>>,
     order_flow |-> OrderFlow("zero")]

NoLocals ==
    [features |-> <<>>, pattern_pred |-> NoVote, confidence_pred |-> NoVote,
     ensemble_pred |-> NoVote, strategy_raised |-> {},
     winning_signal |-> "NONE", weighted_confidence |-> Zero,
     final_signal |-> "NONE", final_confidence |-> Zero,
     stop_loss |-> Zero, target |-> Zero, reasoning |-> <<>>,
     zero_division |-> FALSE, handled |-> FALSE]

NoSignal ==
    [signal |-> "NONE", confidence |-> Zero, reasoning |-> <<>>,
     stop_loss |-> Zero, target |-> Zero, risk_reward |-> Zero,
     pattern_matched |-> "", metadata |-> <<>>]

Init ==
    /\ pc = [r \in Reqs |-> "idle"]
    /\ kind = [r \in Reqs |-> "analyze"]
    /\ req = [r \in Reqs |-> NoRequest]
    /\ task = [r \in Reqs |-> [p \in Patterns |-> "idle"]]
    /\ result = [r \in Reqs |-> [p \in Patterns |-> Zero]]
    /\ raised = [r \in Reqs |-> {}]
    /\ detected = [r \in Reqs |-> NoPatterns]
    /\ gs = [r \in Reqs |-> NoLocals]
    /\ signal = [r \in Reqs |-> NoSignal]
    /\ response = [r \in Reqs |-> NoSignal]
    /\ signals_generated = 0
    /\ successful_predictions = 0
    /\ total_profit_points = Zero
    /\ model_weights = InitialModelWeights
    /\ settings = InitialSettings
    /\ thresholds = InitialThresholds
    /\ detection_history = <<>>
    /\ auth = BackendAuthenticator

(***************************************************************************)
(* A request arrives at an endpoint (FastAPI starts the handler).          *)
(***************************************************************************)
Receive(r, d, k) ==
    /\ settings.constructed
    /\ pc[r] \in {"idle", "done"}
    /\ signals_generated < MaxSignals
    /\ pc' = [pc EXCEPT ![r] = "detect"]
    /\ kind' = [kind EXCEPT ![r] = k]
    /\ req' = [req EXCEPT ![r] = Request(d)]
    /\ task' = [task EXCEPT ![r] = [p \in Patterns |-> "idle"]]
    /\ result' = [result EXCEPT ![r] = [p \in Patterns |-> Zero]]
    /\ raised' = [raised EXCEPT ![r] = {}]
    /\ detected' = [detected EXCEPT ![r] = NoPatterns]
    /\ gs' = [gs EXCEPT ![r] = NoLocals]
    /\ signal' = [signal EXCEPT ![r] = NoSignal]
    /\ response' = [response EXCEPT ![r] = NoSignal]
    /\ UNCHANGED <<signals_generated, genFields, detFields, auth>>

(***************************************************************************)
(* PatternDetector.detect_patterns                                         *)
(***************************************************************************)
\* lines 70-84: too short a tape returns {} at once; otherwise one task
\* per registered template is created and handed to asyncio.gather
DetectStart(r) ==
    /\ pc[r] = "detect"
    /\ IF Len(req[r].tape_data) < 10
       THEN /\ pc' = [pc EXCEPT ![r] = "detected"]
            /\ UNCHANGED task
       ELSE /\ pc' = [pc EXCEPT ![r] = "gather"]
            /\ task' = [task EXCEPT ![r] = [p \in Patterns |-> "pending"]]
    /\ UNCHANGED <<kind, req, result, raised, detected, gs, signal, response,
                   signals_generated, genFields, detFields, auth>>

\* one detector task runs _detect_single_pattern to its end
TaskFinish(r, p) ==
    /\ pc[r] = "gather"
    /\ task[r][p] = "pending"
    /\ task' = [task EXCEPT ![r][p] = "done"]
    /\ result' = [result EXCEPT ![r][p] =
          DetectSinglePattern(p, req[r].tape_data, req[r].order_flow, FALSE)]
    /\ UNCHANGED <<pc, kind, req, raised, detected, gs, signal, response,
                   signals_generated, genFields, detFields, auth>>

\* one detector task whose template raises
TaskRaise(r, p) ==
    /\ pc[r] = "gather"
    /\ task[r][p] = "pending"
    /\ task' = [task EXCEPT ![r][p] = "done"]
    /\ result' = [result EXCEPT ![r][p] =
          DetectSinglePattern(p, req[r].tape_data, req[r].order_flow, TRUE)]
    /\ raised' = [raised EXCEPT ![r] = @ \cup {p}]
    /\ UNCHANGED <<pc, kind, req, detected, gs, signal, response,
                   signals_generated, genFields, detFields, auth>>

\* a gather that resumes at the first finished task
GatherAny(tasks) == \E p \in Patterns : tasks[p] = "done"

\* await asyncio.gather(*detection_tasks, return_exceptions=True) resumes
\* when every task is done
GatherDone(tasks) == \A p \in Patterns : tasks[p] = "done"

\* a result loop without the threshold test
ProcessResultsAll(results, exceptions, thr) ==
    [p \in {q \in Patterns : q \notin exceptions} |-> results[p]]

\* lines 90-99: results that are exceptions are skipped, the others are
\* kept when they reach the pattern's threshold
ProcessResults(results, exceptions, thr) ==
    [p \in {q \in Patterns :
               /\ q \notin exceptions
               /\ RGe(results[q], IF q \in DOMAIN thr THEN thr[q]
                                  ELSE R(8, 10))} |-> results[p]]

\* a detect_patterns that records each mapping it returns in
\* detection_history
DetectReturnRecording(r) ==
    /\ pc[r] = "gather"
    /\ GatherDone(task[r])
    /\ detected' = [detected EXCEPT ![r] =
                       ProcessResults(result[r], {}, thresholds)]
    /\ detection_history' =
          Append(detection_history, ProcessResults(result[r], {}, thresholds))
    /\ pc' = [pc EXCEPT ![r] = "detected"]
    /\ UNCHANGED <<kind, req, task, result, raised, gs, signal, response,
                   signals_generated, genFields, thresholds, auth>>

\* a detect_patterns whose results live in one list shared by all calls on
\* the detector: the mapping is built from whichever call's results are
\* complete
DetectReturnShared(r) ==
    /\ pc[r] = "gather"
    /\ GatherDone(task[r])
    /\ \E q \in {x \in DOMAIN task : GatherDone(task[x])} :
          detected' = [detected EXCEPT ![r] =
                          ProcessResults(result[q], {}, thresholds)]
    /\ pc' = [pc EXCEPT ![r] = "detected"]
    /\ UNCHANGED <<kind, req, task, result, raised, gs, signal, response,
                   signals_generated, genFields, detFields, auth>>

\* _detect_single_pattern catches every Exception, so gather never hands
\* one back
DetectReturn(r) ==
    /\ pc[r] = "gather"
    /\ GatherDone(task[r])
    /\ detected' = [detected EXCEPT ![r] =
                       ProcessResults(result[r], {}, thresholds)]
    /\ pc' = [pc EXCEPT ![r] = "detected"]
    /\ UNCHANGED <<kind, req, task, result, raised, gs, signal, response,
                   signals_generated, genFields, detFields, auth>>

(***************************************************************************)
(* SignalGenerator.generate_signal, step by step through its try block     *)
(***************************************************************************)
\* step 1: _engineer_features
GsFeatures(r, now) ==
    /\ pc[r] = "detected"
    /\ kind[r] = "analyze"
    /\ gs' = [gs EXCEPT ![r].features =
                 EngineerFeatures(req[r].market_data, req[r].tape_data,
                                  req[r].order_flow, now)]
    /\ pc' = [pc EXCEPT ![r] = "predict"]
    /\ UNCHANGED <<kind, req, detVars, signal, response, signals_generated,
                   genFields, detFields, auth>>

\* step 2: the three strategies; those in `failing` raise inside their own
\* try block
Predict(r, failing) ==
    /\ pc[r] = "predict"
    /\ gs' = [gs EXCEPT
                ![r].pattern_pred =
                    PredictPatternModel(gs[r].features, detected[r],
                                        "pattern" \in failing),
                ![r].confidence_pred =
                    PredictConfidenceModel(gs[r].features, detected[r],
                                           "confidence" \in failing),
                ![r].ensemble_pred =
                    PredictEnsembleModel(gs[r].features,
                                         "ensemble" \in failing),
                ![r].strategy_raised = failing]
    /\ pc' = [pc EXCEPT ![r] = "combine"]
    /\ UNCHANGED <<kind, req, detVars, signal, response, signals_generated,
                   genFields, detFields, auth>>

GsPredict(r) == Predict(r, {})

GsPredictRaise(r, m) == Predict(r, {m})

\* step 3: _combine_predictions; winning_signal and weighted_confidence
\* are its locals of lines 373-375, before the gate of line 378
GsCombine(r) ==
    /\ pc[r] = "combine"
    /\ LET preds == Predictions(gs[r].pattern_pred, gs[r].confidence_pred,
                                gs[r].ensemble_pred)
           final == CombinePredictions(model_weights,
                                       settings.MIN_PATTERN_CONFIDENCE,
                                       gs[r].pattern_pred,
                                       gs[r].confidence_pred,
                                       gs[r].ensemble_pred)
       IN  gs' = [gs EXCEPT
                    ![r].winning_signal = WinningSignal(model_weights, preds),
                    ![r].weighted_confidence =
                        WeightedConfidence(model_weights, preds),
                    ![r].final_signal = final.signal,
                    ![r].final_confidence = final.conf]
    /\ pc' = [pc EXCEPT ![r] = "risk"]
    /\ UNCHANGED <<kind, req, detVars, signal, response, signals_generated,
                   genFields, detFields, auth>>

\* steps 4 and 5: _calculate_risk_reward and _generate_reasoning
GsRisk(r) ==
    /\ pc[r] = "risk"
    /\ LET st == CalculateRiskReward(req[r].market_data.price,
                                     gs[r].final_signal,
                                     gs[r].final_confidence)
       IN  gs' = [gs EXCEPT
                    ![r].stop_loss = st[1],
                    ![r].target = st[2],
                    ![r].reasoning =
                        GenerateReasoning(detected[r], gs[r].final_signal,
                                          gs[r].final_confidence)]
    /\ pc' = [pc EXCEPT ![r] = "build"]
    /\ UNCHANGED <<kind, req, detVars, signal, response, signals_generated,
                   genFields, detFields, auth>>

\* line 123: the risk_reward expression.  For HOLD the operands are plain
\* Python floats and a zero divisor raises ZeroDivisionError; for BUY and
\* SELL stop_loss went through numpy arithmetic (the confidence is a numpy
\* scalar), where a zero divisor gives inf or nan instead.
Inf == <<1, 0>>

RiskRewardExpr(price, final_signal, stop_loss, target) ==
    LET num == IF final_signal = "BUY" THEN RSub(target, price)
               ELSE RSub(price, target)
        den == IF final_signal = "BUY" THEN RSub(price, stop_loss)
               ELSE RSub(stop_loss, price)
    IN  IF den # Zero THEN [raises |-> FALSE, value |-> RDiv(num, den)]
        ELSE IF final_signal = "HOLD" THEN [raises |-> TRUE, value |-> NaN]
        ELSE [raises |-> FALSE,
              value |-> IF num = Zero THEN NaN
                        ELSE IF RLt(num, Zero) THEN RNeg(Inf) ELSE Inf]

PatternMatched(patterns) ==
    IF DOMAIN patterns # {} THEN BestPattern(patterns) ELSE "none"

\* lines 117-136
BuildSignal(mk, tape, patterns, l, risk_reward) ==
    [signal |-> l.final_signal,
     confidence |-> l.final_confidence,
     reasoning |-> l.reasoning,
     stop_loss |-> l.stop_loss,
     target |-> l.target,
     risk_reward |-> risk_reward,
     pattern_matched |-> PatternMatched(patterns),
     metadata |-> [pattern_scores |-> patterns,
                   model_predictions |->
                       [pattern_model |-> l.pattern_pred,
                        confidence_model |-> l.confidence_pred,
                        ensemble_model |-> l.ensemble_pred],
                   features_used |-> Len(l.features),
                   market_regime |-> DetectMarketRegime(tape),
                   volatility_adjusted |-> TRUE]]

\* an except branch that leaves stop_loss and target unset
ErrorSignalUnset(mk) ==
    [signal |-> "HOLD",
     confidence |-> Zero,
     reasoning |-> <<"Error in signal generation">>,
     stop_loss |-> Zero,
     target |-> Zero,
     risk_reward |-> Zero,
     pattern_matched |-> "error",
     metadata |-> <<>>]

\* an except branch that rounds its levels to 0.01 as _calculate_risk_reward
\* does
ErrorSignalRounded(mk) ==
    [signal |-> "HOLD",
     confidence |-> Zero,
     reasoning |-> <<"Error in signal generation">>,
     stop_loss |-> Round2(mk.price),
     target |-> Round2(mk.price),
     risk_reward |-> Zero,
     pattern_matched |-> "error",
     metadata |-> <<>>]

\* lines 148-156: the safe HOLD signal of the except branch
ErrorSignal(mk) ==
    [signal |-> "HOLD",
     confidence |-> Zero,
     reasoning |-> <<"Error in signal generation">>,
     stop_loss |-> mk.price,
     target |-> mk.price,
     risk_reward |-> Zero,
     pattern_matched |-> "error",
     metadata |-> <<>>]

\* steps 6 and 7: the signal object is built and the counter incremented,
\* unless the risk_reward expression raises
GsBuild(r) ==
    /\ pc[r] = "build"
    /\ LET rr == RiskRewardExpr(req[r].market_data.price, gs[r].final_signal,
                                gs[r].stop_loss, gs[r].target)
       IN  IF rr.raises
           THEN /\ gs' = [gs EXCEPT ![r].zero_division = TRUE]
                /\ pc' = [pc EXCEPT ![r] = "except"]
                /\ UNCHANGED <<signal, signals_generated>>
           ELSE /\ signal' = [signal EXCEPT ![r] =
                                 BuildSignal(req[r].market_data,
                                             req[r].tape_data, detected[r],
                                             gs[r], rr.value)]
                /\ signals_generated' = signals_generated + 1
                /\ pc' = [pc EXCEPT ![r] = "returned"]
                /\ UNCHANGED gs
    /\ UNCHANGED <<kind, req, detVars, response, genFields, detFields, auth>>

\* any other exception raised inside the try block
GsRaise(r) ==
    /\ pc[r] \in {"predict", "combine", "risk", "build"}
    /\ pc' = [pc EXCEPT ![r] = "except"]
    /\ UNCHANGED <<kind, req, detVars, gs, signal, response,
                   signals_generated, genFields, detFields, auth>>

\* an except branch that takes the failed invocation back out of the
\* counter
GsExceptRollback(r) ==
    /\ pc[r] = "except"
    /\ gs' = [gs EXCEPT ![r].handled = TRUE]
    /\ signal' = [signal EXCEPT ![r] = ErrorSignal(req[r].market_data)]
    /\ signals_generated' =
          IF signals_generated > 0 THEN signals_generated - 1 ELSE 0
    /\ pc' = [pc EXCEPT ![r] = "returned"]
    /\ UNCHANGED <<kind, req, detVars, response, genFields, detFields, auth>>

\* the except branch of line 144
GsExcept(r) ==
    /\ pc[r] = "except"
    /\ gs' = [gs EXCEPT ![r].handled = TRUE]
    /\ signal' = [signal EXCEPT ![r] = ErrorSignal(req[r].market_data)]
    /\ pc' = [pc EXCEPT ![r] = "returned"]
    /\ UNCHANGED <<kind, req, detVars, response, signals_generated,
                   genFields, detFields, auth>>

(***************************************************************************)
(* The endpoints                                                           *)
(***************************************************************************)
\* a validation that notes the low confidence and keeps the direction
ValidateConfidenceNoteOnly(sig, threshold) ==
    IF RLt(sig.confidence, threshold)
    THEN [sig EXCEPT !.reasoning = @ \o <<"Low confidence">>]
    ELSE sig

\* analyze_market_data, lines 125-141: confidence validation and return
ValidateConfidence(sig, threshold) ==
    IF RLt(sig.confidence, threshold)
    THEN [sig EXCEPT !.signal = "HOLD",
                     !.reasoning = @ \o <<"Low confidence">>]
    ELSE sig

EpValidate(r) ==
    /\ pc[r] = "returned"
    /\ response' = [response EXCEPT ![r] =
                       ValidateConfidence(signal[r],
                                          settings.CONFIDENCE_THRESHOLD)]
    /\ pc' = [pc EXCEPT ![r] = "done"]
    /\ UNCHANGED <<kind, req, detVars, gs, signal, signals_generated,
                   genFields, detFields, auth>>

\* detect_patterns endpoint, lines 163-180
PatternAnalysis(mk, tape, patterns) ==
    [patterns_detected |-> DOMAIN patterns,
     confidence_scores |-> patterns,
     market_regime |-> AnalyzeMarketRegime(mk),
     volatility_state |-> AnalyzeVolatility(tape),
     recommendation |-> GenerateRecommendation(patterns)]

EpPatternAnalysis(r) ==
    /\ pc[r] = "detected"
    /\ kind[r] = "detect"
    /\ response' = [response EXCEPT ![r] =
                       PatternAnalysis(req[r].market_data, req[r].tape_data,
                                       detected[r])]
    /\ pc' = [pc EXCEPT ![r] = "done"]
    /\ UNCHANGED <<kind, req, detVars, gs, signal, signals_generated,
                   genFields, detFields, auth>>

(***************************************************************************)
(* Specifications                                                          *)
(***************************************************************************)
\* requests served by analyze_market_data, one at a time
MainPool ==
    { In("flat", 0, "zero", "m1"),
      In("flat", 0, "zero", "odd"),
      In("flat", 0, "zero", "sellside"),
      In("flat", 0, "zero", "quiet"),
      In("flat", 1, "zero", "m1"),
      In("flat", 10, "imb", "m1"),
      In("flat", 30, "hid", "m3"),
      In("drift", 30, "hid", "m3"),
      In("ramp", 30, "big", "wide"),
      In("hunt", 25, "neg", "sellside"),
      In("zigzag", 15, "hid", "quiet"),
      In("runs", 30, "neg", "m1"),
      In("shift", 20, "mid", "m1") }

\* requests served by the detect_patterns endpoint
DetectPool ==
    { In("flat", 9, "hid", "m1"),
      In("zigzag", 10, "hid", "quiet"),
      In("zigzag", 14, "big", "quiet"),
      In("spike", 15, "neg", "m1"),
      In("runs", 19, "big", "m1"),
      In("shift", 20, "mid", "m1"),
      In("hunt", 24, "imb", "m3"),
      In("hunt", 25, "zero", "m3"),
      In("runs", 29, "hid", "m1"),
      In("runs", 30, "neg", "m1"),
      In("flat", 31, "big", "m1") }

Next ==
    \/ \E d \in MainPool : Receive("r1", d, "analyze")
    \/ DetectStart("r1")
    \/ \E p \in Patterns : TaskFinish("r1", p)
    \/ DetectReturn("r1")
    \/ \E now \in Nows : GsFeatures("r1", now)
    \/ GsPredict("r1")
    \/ \E m \in {"pattern", "confidence", "ensemble"} : GsPredictRaise("r1", m)
    \/ GsCombine("r1")
    \/ GsRisk("r1")
    \/ GsBuild("r1")
    \/ GsRaise("r1")
    \/ GsExcept("r1")
    \/ EpValidate("r1")

Spec == Init /\ [][Next]_vars

\* detect_patterns with detectors that return
NextDetect ==
    \/ \E d \in DetectPool : Receive("r1", d, "detect")
    \/ DetectStart("r1")
    \/ \E p \in Patterns : TaskFinish("r1", p)
    \/ DetectReturn("r1")
    \/ EpPatternAnalysis("r1")

SpecDetect == Init /\ [][NextDetect]_vars

\* requests during which detectors may raise
FaultPool ==
    { In("hunt", 25, "neg", "sellside"),
      In("spike", 15, "neg", "m1"),
      In("flat", 9, "hid", "m1") }

\* detect_patterns with detectors that return or raise
NextFault ==
    \/ \E d \in FaultPool : Receive("r1", d, "detect")
    \/ DetectStart("r1")
    \/ \E p \in Patterns : TaskFinish("r1", p)
    \/ \E p \in Patterns : TaskRaise("r1", p)
    \/ DetectReturn("r1")
    \/ EpPatternAnalysis("r1")

SpecFault == Init /\ [][NextFault]_vars

\* _combine_predictions applied to votes of every direction, with
\* confidences on both sides of the gate and one above 1
ConfGrid == {Zero, Half, R(17, 20), One, R(3, 2)}

VoteGrid == {Vote(s, c) : s \in {"BUY", "SELL", "HOLD"}, c \in ConfGrid}

\* generate_signal about to call _combine_predictions with the three votes
InitCombine ==
    /\ pc = [r \in Reqs |-> IF r = "r1" THEN "combine" ELSE "idle"]
    /\ kind = [r \in Reqs |-> "analyze"]
    /\ req = [r \in Reqs |->
                 IF r = "r1" THEN Request(In("flat", 0, "zero", "m3"))
                 ELSE NoRequest]
    /\ task = [r \in Reqs |-> [p \in Patterns |-> "idle"]]
    /\ result = [r \in Reqs |-> [p \in Patterns |-> Zero]]
    /\ raised = [r \in Reqs |-> {}]
    /\ detected = [r \in Reqs |-> NoPatterns]
    /\ \E pp \in VoteGrid, cp \in VoteGrid, ep \in VoteGrid :
          gs = [r \in Reqs |->
                   IF r = "r1"
                   THEN [NoLocals EXCEPT
                           !.features =
                               EngineerFeatures(
                                   Market("m3"), <<>>, OrderFlow("zero"),
                                   [hour |-> 10, minute |-> 30,
                                    weekday |-> 2]),
                           !.pattern_pred = pp,
                           !.confidence_pred = cp,
                           !.ensemble_pred = ep]
                   ELSE NoLocals]
    /\ signal = [r \in Reqs |-> NoSignal]
    /\ response = [r \in Reqs |-> NoSignal]
    /\ signals_generated = 0
    /\ successful_predictions = 0
    /\ total_profit_points = Zero
    /\ model_weights = InitialModelWeights
    /\ settings = InitialSettings
    /\ thresholds = InitialThresholds
    /\ detection_history = <<>>
    /\ auth = BackendAuthenticator

NextCombine ==
    \/ GsCombine("r1")
    \/ GsRisk("r1")
    \/ GsBuild("r1")
    \/ GsExcept("r1")
    \/ EpValidate("r1")

SpecCombine == InitCombine /\ [][NextCombine]_vars

(***************************************************************************)
(* Properties                                                              *)
(***************************************************************************)
Returned(r) == pc[r] \in {"returned", "done"} /\ kind[r] = "analyze"

\* C1: generate_signal hands a TradingSignal back for every request and
\* propagates no exception; whenever a step faulted (the except branch ran,
\* or feature engineering fell back to its zero vector) the signal is HOLD
\* with stop_loss = target = market price and risk_reward = 0.
C1_SafeSignalOnFault ==
    \A r \in Reqs :
        Returned(r) =>
            /\ signal[r].signal \in {"BUY", "SELL", "HOLD"}
            /\ (gs[r].handled \/ FeaturesFault(req[r].tape_data)) =>
                  /\ signal[r].signal = "HOLD"
                  /\ signal[r].stop_loss = req[r].market_data.price
                  /\ signal[r].target = req[r].market_data.price
                  /\ signal[r].risk_reward = Zero

\* an exception raised after a BUY decision was caught and answered
C1_Witness ==
    /\ pc["r1"] = "returned"
    /\ gs["r1"].handled
    /\ ~gs["r1"].zero_division
    /\ gs["r1"].final_signal = "BUY"

\* C2: building the signal evaluates no division by zero, and the signal
\* built has risk_reward = |target - price| / |price - stop_loss|, or 0 when
\* stop_loss equals the price (the HOLD case).
C2_RiskRewardWithoutZeroDivision ==
    \A r \in Reqs :
        /\ ~gs[r].zero_division
        /\ (Returned(r) /\ ~gs[r].handled) =>
              LET price == req[r].market_data.price
              IN  signal[r].risk_reward =
                      IF signal[r].stop_loss = price THEN Zero
                      ELSE RDiv(RAbs(RSub(signal[r].target, price)),
                                RAbs(RSub(price, signal[r].stop_loss)))

\* C3: every score _detect_single_pattern returns and every value of the
\* mapping detect_patterns returns lies in [0,1], whatever the order flow.
C3_ScoresInUnit ==
    \A r \in Reqs :
        /\ \A p \in Patterns : InUnit(result[r][p])
        /\ \A p \in DOMAIN detected[r] : InUnit(detected[r][p])

\* a template scored below 0 and its task returned
C3_Witness ==
    /\ task["r1"]["hidden_liquidity"] = "done"
    /\ RLt(DetectorFunc("hidden_liquidity", req["r1"].tape_data,
                        req["r1"].order_flow), Zero)

\* the minimum window lengths the detectors are said to require
MinLength(p) ==
    CASE p = "absorption" -> 20
      [] p = "iceberg" -> 30
      [] p = "aggressive_entry" -> 10
      [] p = "hidden_liquidity" -> 15
      [] p = "stop_hunt" -> 25
      [] p = "momentum_shift" -> 20
      [] p = "volume_spike" -> 15
      [] p = "order_flow_imbalance" -> 10

\* C4: a detector handed a window shorter than its minimum length scores
\* exactly 0.0, whatever the order flow.
C4_ShortWindowScoresZero ==
    \A r \in Reqs : \A p \in Patterns :
        (task[r][p] = "done" /\ Len(req[r].tape_data) < MinLength(p)) =>
            result[r][p] = Zero

\* C5: after detect_patterns on at least 10 ticks a pattern is a key of the
\* mapping exactly when its clamped score reaches its threshold, and the
\* value stored is that score.
C5_DetectedIffAtThreshold ==
    \A r \in Reqs :
        (pc[r] \in {"detected", "done"} /\ Len(req[r].tape_data) >= 10) =>
            \A p \in Patterns :
                LET score == Clamp(DetectorFunc(p, req[r].tape_data,
                                                req[r].order_flow))
                IN  /\ p \in DOMAIN detected[r] <=>
                           RGe(score, thresholds[p])
                    /\ p \in DOMAIN detected[r] => detected[r][p] = score

\* one pattern was kept and another one, with a positive score, dropped
C5_Witness ==
    /\ pc["r1"] = "detected"
    /\ "stop_hunt" \in DOMAIN detected["r1"]
    /\ "absorption" \notin DOMAIN detected["r1"]
    /\ RGt(result["r1"]["absorption"], Zero)

\* the mapping of the same call when no detector raises
NoFailureRun(r) ==
    ProcessResults(
        [p \in Patterns |->
            Clamp(DetectorFunc(p, req[r].tape_data, req[r].order_flow))],
        {}, thresholds)

\* C6: whichever detectors raise, detect_patterns returns a mapping after
\* every task ran to its end; the raising patterns score 0.0 and are
\* absent, the others have the entries of a run without failures.
C6_FailuresIsolated ==
    \A r \in Reqs :
        (pc[r] \in {"detected", "done"} /\ Len(req[r].tape_data) >= 10) =>
            /\ \A p \in Patterns : task[r][p] = "done"
            /\ \A p \in raised[r] :
                  p \notin DOMAIN detected[r] /\ result[r][p] = Zero
            /\ \A p \in Patterns \ raised[r] :
                  /\ p \in DOMAIN detected[r] <=> p \in DOMAIN NoFailureRun(r)
                  /\ p \in DOMAIN detected[r] =>
                         detected[r][p] = NoFailureRun(r)[p]

\* a detector that would have been reported raised, a sibling is reported
C6_Witness ==
    /\ pc["r1"] = "detected"
    /\ "stop_hunt" \in raised["r1"]
    /\ "stop_hunt" \in DOMAIN NoFailureRun("r1")
    /\ "order_flow_imbalance" \in DOMAIN detected["r1"]

\* C7: while any detector task is still running detect_patterns is waiting
\* in gather and has put no pattern into its result.
C7_JoinBarrier ==
    \A r \in Reqs :
        (\E p \in Patterns : task[r][p] = "pending") =>
            pc[r] = "gather" /\ detected[r] = NoPatterns

\* a task already scored above its threshold while another is running
C7_Witness ==
    /\ task["r1"]["stop_hunt"] = "done"
    /\ RGe(result["r1"]["stop_hunt"], thresholds["stop_hunt"])
    /\ task["r1"]["absorption"] = "pending"

\* C8: when the weighted-average confidence c is below
\* MIN_PATTERN_CONFIDENCE the combiner returns HOLD with max(c, 0.5);
\* otherwise it returns the winning direction and c unchanged.
C8_Gate ==
    \A r \in Reqs :
        gs[r].final_signal # "NONE" =>
            LET c == gs[r].weighted_confidence
            IN  IF RLt(c, MIN_PATTERN_CONFIDENCE)
                THEN /\ gs[r].final_signal = "HOLD"
                     /\ gs[r].final_confidence = RMax(c, Half)
                ELSE /\ gs[r].final_signal = gs[r].winning_signal
                     /\ gs[r].final_confidence = c

\* a BUY winner below 0.5 was turned into HOLD at 0.5
C8_Witness ==
    /\ gs["r1"].winning_signal = "BUY"
    /\ RLt(gs["r1"].weighted_confidence, Half)
    /\ RGt(gs["r1"].weighted_confidence, Zero)
    /\ gs["r1"].final_signal = "HOLD"
    /\ gs["r1"].final_confidence = Half

\* C9: with weights 0.4/0.3/0.3 the direction before the gate has the
\* largest bucket, the confidence before the gate is
\* 0.4 c_pattern + 0.3 c_confidence + 0.3 c_ensemble whatever the
\* directions, and it lies in [0,1] when the three confidences do.
C9_WeightedVote ==
    \A r \in Reqs :
        gs[r].winning_signal # "NONE" =>
            LET pp == gs[r].pattern_pred
                cp == gs[r].confidence_pred
                ep == gs[r].ensemble_pred
                bucket(s) ==
                    RAdd(RAdd(IF pp.signal = s THEN RMul(R(4, 10), pp.conf)
                              ELSE Zero,
                              IF cp.signal = s THEN RMul(R(3, 10), cp.conf)
                              ELSE Zero),
                         IF ep.signal = s THEN RMul(R(3, 10), ep.conf)
                         ELSE Zero)
                c == RAdd(RAdd(RMul(R(4, 10), pp.conf),
                               RMul(R(3, 10), cp.conf)),
                          RMul(R(3, 10), ep.conf))
            IN  /\ \A s \in {"BUY", "SELL", "HOLD"} :
                       RLe(bucket(s), bucket(gs[r].winning_signal))
                /\ gs[r].weighted_confidence = c
                /\ (InUnit(pp.conf) /\ InUnit(cp.conf) /\ InUnit(ep.conf))
                       => InUnit(c)

\* three strategies voted three directions and SELL had the largest bucket
C9_Witness ==
    /\ gs["r1"].winning_signal = "SELL"
    /\ gs["r1"].pattern_pred = Vote("BUY", Half)
    /\ gs["r1"].confidence_pred.signal = "SELL"
    /\ gs["r1"].ensemble_pred.signal = "HOLD"
    /\ InUnit(gs["r1"].confidence_pred.conf)
    /\ InUnit(gs["r1"].ensemble_pred.conf)

\* C10: each of the three strategies votes with a confidence in [0,1].
C10_VoteConfidenceInUnit ==
    \A r \in Reqs :
        /\ InUnit(gs[r].pattern_pred.conf)
        /\ InUnit(gs[r].confidence_pred.conf)
        /\ InUnit(gs[r].ensemble_pred.conf)

\* _calculate_risk_reward applied to every direction, at confidences from 0
\* to 1 and at prices on and off the 0.01 grid
RiskConfGrid == {Zero, R(1, 100), Half, R(17, 20), One}

RiskMarkets == {"m1", "m3", "odd"}

\* generate_signal about to call _calculate_risk_reward
InitRisk ==
    /\ pc = [r \in Reqs |-> IF r = "r1" THEN "risk" ELSE "idle"]
    /\ kind = [r \in Reqs |-> "analyze"]
    /\ \E mk \in RiskMarkets :
          req = [r \in Reqs |->
                    IF r = "r1" THEN Request(In("flat", 0, "zero", mk))
                    ELSE NoRequest]
    /\ task = [r \in Reqs |-> [p \in Patterns |-> "idle"]]
    /\ result = [r \in Reqs |-> [p \in Patterns |-> Zero]]
    /\ raised = [r \in Reqs |-> {}]
    /\ detected = [r \in Reqs |-> NoPatterns]
    /\ \E s \in {"BUY", "SELL", "HOLD"}, c \in RiskConfGrid,
          now \in Nows :
          gs = [r \in Reqs |->
                   IF r = "r1"
                   THEN [NoLocals EXCEPT
                           !.features =
                               EngineerFeatures(
                                   req[r].market_data, <<>>,
                                   OrderFlow("zero"), now),
                           !.winning_signal = s,
                           !.weighted_confidence = c,
                           !.final_signal = s,
                           !.final_confidence = c]
                   ELSE NoLocals]
    /\ signal = [r \in Reqs |-> NoSignal]
    /\ response = [r \in Reqs |-> NoSignal]
    /\ signals_generated = 0
    /\ successful_predictions = 0
    /\ total_profit_points = Zero
    /\ model_weights = InitialModelWeights
    /\ settings = InitialSettings
    /\ thresholds = InitialThresholds
    /\ detection_history = <<>>
    /\ auth = BackendAuthenticator

NextRisk ==
    \/ GsRisk("r1")
    \/ GsBuild("r1")
    \/ GsExcept("r1")
    \/ EpValidate("r1")

SpecRisk == InitRisk /\ [][NextRisk]_vars

\* _calculate_risk_reward has returned for request r
RiskDone(r) == pc[r] \in {"build", "except", "returned", "done"}

\* the ordering of stop_loss, price and target that goes with a direction
RiskOrdered(r) ==
    LET price == req[r].market_data.price
        stop_loss == gs[r].stop_loss
        target == gs[r].target
    IN  CASE gs[r].final_signal = "HOLD" ->
                 stop_loss = price /\ target = price
          [] gs[r].final_signal = "BUY" ->
                 RGt(target, price) /\ RGt(price, stop_loss)
          [] gs[r].final_signal = "SELL" ->
                 RGt(stop_loss, price) /\ RGt(price, target)
          [] OTHER -> TRUE

FeatureCount == 28

\* C12: _engineer_features returns a vector of the same length with every
\* field at the same position for every input: the 28 fields of
\* feature_columns, the price first and the order-flow snapshot at
\* positions 14 to 19, also for a one-tick tape and after an internal fault.
C12_FeatureLayoutStable ==
    \A r \in Reqs :
        gs[r].features # <<>> =>
            /\ Len(gs[r].features) = FeatureCount
            /\ gs[r].features[1] = req[r].market_data.price
            /\ gs[r].features[17] = req[r].order_flow.imbalance_ratio
            /\ gs[r].features[18] = req[r].order_flow.aggression_score

\* C13: in every generate_signal invocation in which no detector and no
\* strategy fails (and nothing else is made to fail), HOLD decisions
\* included, the returned signal carries the direction and the confidence
\* that _combine_predictions decided, and pattern_matched is the best
\* detected pattern, or "none" when none was detected.
C13_ReturnsCombinedDecision ==
    \A r \in Reqs :
        (/\ Returned(r)
         /\ gs[r].strategy_raised = {}
         /\ (gs[r].handled => gs[r].zero_division)) =>
            /\ signal[r].signal = gs[r].final_signal
            /\ signal[r].confidence = gs[r].final_confidence
            /\ signal[r].pattern_matched = PatternMatched(detected[r])

\* the scenario of 10 ticks at 4580.25, volume 50, aggressor buy, with an
\* order flow whose imbalance_ratio is 1.8
FlatTenScenario(r) ==
    /\ kind[r] = "analyze"
    /\ req[r] = Request(In("flat", 10, "imb", "m1"))

AfterDetection(r) ==
    pc[r] \in {"detected", "predict", "combine", "risk", "build", "except", "returned", "done"}

\* C14 as stated: in that scenario detect_patterns reports absorption and
\* order_flow_imbalance, and generate_signal gives BUY with confidence of
\* at least 0.85.
C14_FlatTenBuys ==
    \A r \in Reqs :
        FlatTenScenario(r) =>
            /\ AfterDetection(r) =>
                   {"absorption", "order_flow_imbalance"} \subseteq
                       DOMAIN detected[r]
            /\ (Returned(r) /\ gs[r].strategy_raised = {}
                    /\ (gs[r].handled => gs[r].zero_division)) =>
                   /\ signal[r].signal = "BUY"
                   /\ RGe(signal[r].confidence, R(85, 100))

\* C14: in that scenario detect_patterns reports order_flow_imbalance alone,
\* at 0.94 (absorption needs 20 ticks and scores 0.0), the combiner decides
\* HOLD at 0.526, and generate_signal returns direction HOLD.
C14_FlatTenHolds ==
    \A r \in Reqs :
        FlatTenScenario(r) =>
            /\ AfterDetection(r) =>
                   /\ DOMAIN detected[r] = {"order_flow_imbalance"}
                   /\ detected[r]["order_flow_imbalance"] = R(94, 100)
                   /\ result[r]["absorption"] = Zero
            /\ (pc[r] \in {"risk", "build", "except", "returned", "done"}
                    /\ gs[r].strategy_raised = {} /\ gs[r].winning_signal # "NONE") =>
                   /\ gs[r].final_signal = "HOLD"
                   /\ gs[r].final_confidence = R(526, 1000)
            /\ Returned(r) => signal[r].signal = "HOLD"

\* the scenario ran to its end with all three strategies voting
C14_Witness ==
    /\ FlatTenScenario("r1")
    /\ Returned("r1")
    /\ gs["r1"].strategy_raised = {}
    /\ gs["r1"].final_confidence = R(526, 1000)
    /\ DOMAIN detected["r1"] = {"order_flow_imbalance"}
    /\ signal["r1"].signal = "HOLD"

\* an empty tape window with an all-zero order-flow snapshot
EmptyScenario(r) ==
    /\ kind[r] = "analyze"
    /\ req[r].tape_data = <<>>
    /\ req[r].order_flow = OrderFlow("zero")

\* C15: for an empty tape and an all-zero order flow, whatever the market
\* snapshot, detect_patterns returns the empty mapping and generate_signal
\* returns HOLD with stop_loss = target = market price.
C15_EmptyTapeHolds ==
    \A r \in Reqs :
        EmptyScenario(r) =>
            /\ AfterDetection(r) => DOMAIN detected[r] = {}
            /\ Returned(r) =>
                   /\ signal[r].signal = "HOLD"
                   /\ signal[r].stop_loss = req[r].market_data.price
                   /\ signal[r].target = req[r].market_data.price

\* the empty scenario ran through all seven steps at a price off the 0.01
\* grid, and was returned
C15_Witness ==
    /\ EmptyScenario("r1")
    /\ Returned("r1")
    /\ req["r1"].market_data.price = R(100004, 1000)
    /\ gs["r1"].final_signal = "HOLD"
    /\ gs["r1"].zero_division
    /\ signal["r1"].target = R(100004, 1000)

(***************************************************************************)
(* The absorption detector on its own: two requests whose tapes hold five  *)
(* price levels in their last 20 ticks, with a growing share of the volume *)
(* at one level                                                            *)
(***************************************************************************)
AbsorbPool ==
    { In(shape, n, of, "m3") :
        shape \in {"levels", "steps"}, n \in 20..25, of \in {"zero", "imb"} }

NextAbsorb ==
    \E r \in Reqs :
        \/ \E d \in AbsorbPool : Receive(r, d, "detect")
        \/ DetectStart(r)
        \/ TaskFinish(r, "absorption")

SpecAbsorb == Init /\ [][NextAbsorb]_vars

\* largest per-level volume over total volume in the detector's window
ConcentrationRatio(tape) ==
    LET recent == LastN(tape, 20)
    IN  R(MaxSeq([i \in 1..Len(recent) |->
                     LevelVolume(recent, Round2(recent[i].price))]),
          SumSeq(Volumes(recent)))

\* price range of the detector's window
WindowPriceRange(tape) ==
    LET levels == PriceLevels(LastN(tape, 20))
    IN  RSub(RMaxSet(levels), RMinSet(levels))

AbsorptionScored(r) == pc[r] = "gather" /\ task[r]["absorption"] = "done"

\* C16: of two windows with the same price range and the same imbalance
\* ratio, the one with the larger volume-concentration ratio never gets
\* the smaller absorption score.
C16_AbsorptionMonotone ==
    \A r, q \in Reqs :
        (/\ AbsorptionScored(r) /\ AbsorptionScored(q)
         /\ WindowPriceRange(req[r].tape_data) =
                WindowPriceRange(req[q].tape_data)
         /\ req[r].order_flow.imbalance_ratio =
                req[q].order_flow.imbalance_ratio
         /\ RLe(ConcentrationRatio(req[r].tape_data),
                ConcentrationRatio(req[q].tape_data))) =>
            RLe(result[r]["absorption"], result[q]["absorption"])

\* two scored windows with equal range and imbalance, concentration 0.2
\* against 0.286, and a strictly higher score for the second
C16_Witness ==
    /\ AbsorptionScored("r1") /\ AbsorptionScored("r2")
    /\ WindowPriceRange(req["r1"].tape_data) =
           WindowPriceRange(req["r2"].tape_data)
    /\ req["r1"].order_flow.imbalance_ratio =
           req["r2"].order_flow.imbalance_ratio
    /\ ConcentrationRatio(req["r1"].tape_data) = R(1, 5)
    /\ ConcentrationRatio(req["r2"].tape_data) = R(2, 7)
    /\ RLt(result["r1"]["absorption"], result["r2"]["absorption"])

(***************************************************************************)
(* Configuration: the settings object is built from the environment when   *)
(* config is imported, and update_settings rewrites it while the engine    *)
(* runs                                                                    *)
(***************************************************************************)
SettingGrid == {R(-1, 10), R(9, 10), R(3, 2)}

SettingKeys == {"CONFIDENCE_THRESHOLD", "MIN_PATTERN_CONFIDENCE", "NOT_A_SETTING"}

\* config.py lines 192-197: every keyword that names an attribute of the
\* settings object is assigned with setattr, which runs no validator
UpdateSettings(kwargs) ==
    /\ settings.constructed
    /\ settings' =
          [k \in DOMAIN settings |->
              IF k \in DOMAIN kwargs /\ k # "constructed" THEN kwargs[k]
              ELSE settings[k]]
    /\ UNCHANGED <<pc, kind, req, detVars, gs, signal, response,
                   signals_generated, successful_predictions,
                   total_profit_points, model_weights, detFields, auth>>

InitConfig ==
    /\ pc = [r \in Reqs |-> "idle"]
    /\ kind = [r \in Reqs |-> "analyze"]
    /\ req = [r \in Reqs |-> NoRequest]
    /\ task = [r \in Reqs |-> [p \in Patterns |-> "idle"]]
    /\ result = [r \in Reqs |-> [p \in Patterns |-> Zero]]
    /\ raised = [r \in Reqs |-> {}]
    /\ detected = [r \in Reqs |-> NoPatterns]
    /\ gs = [r \in Reqs |-> NoLocals]
    /\ signal = [r \in Reqs |-> NoSignal]
    /\ response = [r \in Reqs |-> NoSignal]
    /\ signals_generated = 0
    /\ successful_predictions = 0
    /\ total_profit_points = Zero
    /\ model_weights = InitialModelWeights
    /\ \E ct \in SettingGrid, mpc \in SettingGrid :
          settings = Settings([CONFIDENCE_THRESHOLD |-> ct,
                               MIN_PATTERN_CONFIDENCE |-> mpc])
    /\ thresholds = InitialThresholds
    /\ detection_history = <<>>
    /\ auth = BackendAuthenticator

ConfigPool == {In("flat", 0, "zero", "m1"), In("ramp", 30, "big", "wide")}

NextConfig ==
    \/ \E d \in ConfigPool : Receive("r1", d, "analyze")
    \/ DetectStart("r1")
    \/ \E p \in Patterns : TaskFinish("r1", p)
    \/ DetectReturn("r1")
    \/ \E now \in Nows : GsFeatures("r1", now)
    \/ GsPredict("r1")
    \/ GsCombine("r1")
    \/ GsRisk("r1")
    \/ GsBuild("r1")
    \/ GsExcept("r1")
    \/ EpValidate("r1")
    \/ \E K \in (SUBSET SettingKeys) \ {{}} :
          \E kwargs \in [K -> SettingGrid] : UpdateSettings(kwargs)

SpecConfig == InitConfig /\ [][NextConfig]_vars

\* generate_signal is running for request r
Generating(r) ==
    kind[r] = "analyze" /\ pc[r] \in {"predict", "combine", "risk", "build", "except"}

\* C17: a CONFIDENCE_THRESHOLD or MIN_PATTERN_CONFIDENCE outside [0,1], or
\* model weights that do not sum to 1.0, are rejected at construction, so
\* generate_signal never runs with such values, also after update_settings.
C17_ConfigurationValidated ==
    \A r \in Reqs :
        Generating(r) =>
            /\ InUnit(settings.CONFIDENCE_THRESHOLD)
            /\ InUnit(settings.MIN_PATTERN_CONFIDENCE)
            /\ SumOfWeights(model_weights) = One

\* the votes of request r are those of the strategies that did not raise,
\* with (HOLD, 0.0) for the one that did, and the decision is their
\* combination
VotesCombined(r) ==
    /\ gs[r].pattern_pred =
          PredictPatternModel(gs[r].features, detected[r],
                              "pattern" \in gs[r].strategy_raised)
    /\ gs[r].confidence_pred =
          PredictConfidenceModel(gs[r].features, detected[r],
                                 "confidence" \in gs[r].strategy_raised)
    /\ gs[r].ensemble_pred =
          PredictEnsembleModel(gs[r].features,
                               "ensemble" \in gs[r].strategy_raised)
    /\ \A m \in gs[r].strategy_raised :
          Predictions(gs[r].pattern_pred, gs[r].confidence_pred,
                      gs[r].ensemble_pred)[m] = Vote("HOLD", Zero)

\* C18: when one strategy raises inside generate_signal it votes
\* (HOLD, 0.0), the other two votes are computed and combined, and the
\* signal returned is the combined decision, not the error signal.
C18_StrategyFaultIsolated ==
    \A r \in Reqs :
        (/\ Returned(r)
         /\ gs[r].strategy_raised # {}
         /\ (gs[r].handled => gs[r].zero_division)) =>
            /\ VotesCombined(r)
            /\ signal[r].signal = gs[r].final_signal
            /\ signal[r].confidence = gs[r].final_confidence
            /\ signal[r].pattern_matched # "error"

\* the feature-confidence strategy has voted for request r without raising
ConfidenceVoted(r) ==
    /\ kind[r] = "analyze"
    /\ pc[r] \in {"combine", "risk", "build"}
    /\ "confidence" \notin gs[r].strategy_raised

\* C19: the values _predict_confidence_model reads at feature positions 12
\* and 13 are the order flow's imbalance_ratio and aggression_score, and it
\* votes BUY exactly when its confidence exceeds 0.85 with
\* aggression_score > 0.7, SELL exactly when its confidence exceeds 0.85
\* with aggression_score < -0.7, and HOLD otherwise.
C19_ConfidenceModelReadsOrderFlow ==
    \A r \in Reqs :
        ConfidenceVoted(r) =>
            LET vote == gs[r].confidence_pred
                aggression_score == req[r].order_flow.aggression_score
            IN  /\ gs[r].features[13] = req[r].order_flow.imbalance_ratio
                /\ gs[r].features[14] = aggression_score
                /\ vote.signal = "BUY" <=>
                       (RGt(vote.conf, R(85, 100))
                            /\ RGt(aggression_score, R(7, 10)))
                /\ vote.signal = "SELL" <=>
                       (RGt(vote.conf, R(85, 100))
                            /\ RLt(aggression_score, R(-7, 10)))

(***************************************************************************)
(* The pattern strategy on its own: generate_signal about to run its       *)
(* strategies on a mapping that detect_patterns can return, of at most two *)
(* patterns with scores from their thresholds up                           *)
(***************************************************************************)
ScoreGrid(p) ==
    {c \in {InitialThresholds[p], R(9, 10), R(97, 100), One} :
        RGe(c, InitialThresholds[p])}

DetectedGrid ==
    UNION {{d \in [K -> UNION {ScoreGrid(p) : p \in K}] :
               \A p \in K : d[p] \in ScoreGrid(p)} :
           K \in {K \in SUBSET Patterns : Cardinality(K) <= 2}}

\* feature vectors for the two other strategies: those of an empty tape
\* under two market snapshots, and the same with the two values that
\* _predict_confidence_model reads at positions 12 and 13 set so that it
\* votes SELL or BUY
StrategyFeatures ==
    LET base(mk) ==
            EngineerFeatures(Market(mk), <<>>, OrderFlow("zero"),
                             [hour |-> 10, minute |-> 30, weekday |-> 2])
    IN  {base("m3"), base("sellside")}
            \cup {[base("sellside") EXCEPT ![13] = RInt(5), ![14] = g] :
                      g \in {RInt(-1), One}}

InitPattern ==
    /\ pc = [r \in Reqs |-> IF r = "r1" THEN "predict" ELSE "idle"]
    /\ kind = [r \in Reqs |-> "analyze"]
    /\ req = [r \in Reqs |->
                 IF r = "r1" THEN Request(In("flat", 0, "zero", "m3"))
                 ELSE NoRequest]
    /\ task = [r \in Reqs |-> [p \in Patterns |-> "idle"]]
    /\ result = [r \in Reqs |-> [p \in Patterns |-> Zero]]
    /\ raised = [r \in Reqs |-> {}]
    /\ \E d \in DetectedGrid :
          detected = [r \in Reqs |-> IF r = "r1" THEN d ELSE NoPatterns]
    /\ \E f \in StrategyFeatures :
          gs = [r \in Reqs |->
                   IF r = "r1" THEN [NoLocals EXCEPT !.features = f]
                   ELSE NoLocals]
    /\ signal = [r \in Reqs |-> NoSignal]
    /\ response = [r \in Reqs |-> NoSignal]
    /\ signals_generated = 0
    /\ successful_predictions = 0
    /\ total_profit_points = Zero
    /\ model_weights = InitialModelWeights
    /\ settings = InitialSettings
    /\ thresholds = InitialThresholds
    /\ detection_history = <<>>
    /\ auth = BackendAuthenticator

NextPattern ==
    \/ GsPredict("r1")
    \/ GsCombine("r1")
    \/ GsRisk("r1")
    \/ GsBuild("r1")
    \/ GsExcept("r1")
    \/ EpValidate("r1")

SpecPattern == InitPattern /\ [][NextPattern]_vars

\* C20: _predict_pattern_model votes (HOLD, 0.5) when no pattern was
\* detected; otherwise its confidence is the highest pattern confidence and
\* its direction is BUY when the best pattern is absorption above 0.85,
\* iceberg above 0.80 or stop_hunt above 0.90, and HOLD for every other
\* best pattern, absorption at exactly 0.85 included.
C20_PatternModelVote ==
    \A r \in Reqs :
        (kind[r] = "analyze" /\ pc[r] \in {"combine", "risk", "build"}
             /\ "pattern" \notin gs[r].strategy_raised) =>
            LET vote == gs[r].pattern_pred
                d == detected[r]
            IN  IF DOMAIN d = {} THEN vote = Vote("HOLD", Half)
                ELSE LET best == BestPattern(d)
                         buys ==
                             \/ best = "absorption" /\ RGt(d[best], R(85, 100))
                             \/ best = "iceberg" /\ RGt(d[best], R(80, 100))
                             \/ best = "stop_hunt" /\ RGt(d[best], R(90, 100))
                     IN  /\ \A p \in DOMAIN d : RLe(d[p], vote.conf)
                         /\ vote.conf = d[best]
                         /\ vote.signal = IF buys THEN "BUY" ELSE "HOLD"

\* absorption alone at exactly its threshold 0.85 got the vote (HOLD, 0.85)
C20_Witness ==
    /\ pc["r1"] = "combine"
    /\ DOMAIN detected["r1"] = {"absorption"}
    /\ detected["r1"]["absorption"] = R(85, 100)
    /\ gs["r1"].pattern_pred = Vote("HOLD", R(85, 100))

\* C21: every sub-score that enters a detector's weighted blend lies in
\* [0,1]: for the iceberg detector the volume consistency and the side
\* dominance of each price run and the hidden-liquidity score, for the
\* hidden-liquidity detector the indicator score.
C21_SubScoresInUnit ==
    \A r \in Reqs :
        /\ (task[r]["iceberg"] = "done" /\ Len(req[r].tape_data) >= 30) =>
              LET recent == LastN(req[r].tape_data, 30)
              IN  /\ \A run \in PriceRuns(recent) :
                        LET sequence == SubSeq(recent, run[1], run[2])
                        IN  /\ InUnit(VolumeConsistency(Volumes(sequence)))
                            /\ InUnit(SideDominance(sequence))
                  /\ PriceRuns(recent) # {} =>
                        InUnit(HiddenLiquidityScore(req[r].order_flow))
        /\ task[r]["hidden_liquidity"] = "done" =>
              InUnit(HiddenLiquidityScore(req[r].order_flow))

\* b is a key of maximum confidence in the mapping d and, among the keys
\* of that confidence, the earliest in registry order
FirstOfMaxima(d, b) ==
    /\ b \in DOMAIN d
    /\ \A q \in DOMAIN d : RLe(d[q], d[b])
    /\ \A q \in DOMAIN d : d[q] = d[b] => PatternIndex(b) <= PatternIndex(q)

\* C22: the single best pattern taken from a detect_patterns result (by
\* the pattern strategy, for pattern_matched and for the reasoning) has
\* the maximum confidence of the mapping and, on a tie at the maximum, is
\* the earliest in registry order.
C22_BestPatternTieBreak ==
    \A r \in Reqs :
        (kind[r] = "analyze" /\ DOMAIN detected[r] # {}) =>
            /\ (pc[r] \in {"combine", "risk", "build"}
                    /\ "pattern" \notin gs[r].strategy_raised) =>
                   \E b \in DOMAIN detected[r] :
                       /\ FirstOfMaxima(detected[r], b)
                       /\ gs[r].pattern_pred.conf = detected[r][b]
            /\ gs[r].reasoning # <<>> =>
                   FirstOfMaxima(detected[r], gs[r].reasoning[1][2])
            /\ (Returned(r) /\ ~gs[r].handled) =>
                   FirstOfMaxima(detected[r], signal[r].pattern_matched)

\* a signal was returned for a mapping with two patterns tied at 1.0,
\* stop_hunt and order_flow_imbalance, and names stop_hunt
C22_Witness ==
    /\ Returned("r1") /\ ~gs["r1"].handled
    /\ DOMAIN detected["r1"] = {"stop_hunt", "order_flow_imbalance"}
    /\ detected["r1"]["stop_hunt"] = detected["r1"]["order_flow_imbalance"]
    /\ signal["r1"].pattern_matched = "stop_hunt"
    /\ gs["r1"].reasoning[1][2] = "stop_hunt"

(***************************************************************************)
(* Two detect_patterns calls on one PatternDetector, with different        *)
(* inputs, their detector tasks finishing in any order and interleaved     *)
(***************************************************************************)
NextInterleaved ==
    \/ Receive("r1", In("spike", 15, "neg", "m1"), "detect")
    \/ Receive("r2", In("zigzag", 10, "hid", "quiet"), "detect")
    \/ \E r \in Reqs :
          \/ DetectStart(r)
          \/ \E p \in Patterns : TaskFinish(r, p)
          \/ DetectReturn(r)
          \/ EpPatternAnalysis(r)

SpecInterleaved == Init /\ [][NextInterleaved]_vars

\* C23: whatever the order in which the eight detector tasks finish, and
\* whatever a concurrent detect_patterns call on the same detector does
\* meanwhile, a call returns the mapping it returns when run alone: every
\* pattern's entry is the clamped score of that pattern's own template on
\* the call's own input.
C23_OrderIndependent ==
    \A r \in Reqs :
        (pc[r] \in {"detected", "done"} /\ Len(req[r].tape_data) >= 10) =>
            detected[r] = NoFailureRun(r)

\* a call has returned a mapping of two patterns while the other call, on
\* a different input, has detector tasks both finished and still running
C23_Witness ==
    /\ pc["r1"] = "detected"
    /\ DOMAIN detected["r1"] = {"volume_spike", "order_flow_imbalance"}
    /\ pc["r2"] = "gather"
    /\ req["r2"] # req["r1"]
    /\ task["r2"]["hidden_liquidity"] = "done"
    /\ task["r2"]["absorption"] = "pending"

\* detect_patterns is running for request r
Detecting(r) == pc[r] \in {"detect", "gather"}

\* C24: no step of detect_patterns changes the request it was given (tape
\* window, market and order-flow snapshots), the threshold table or
\* detection_history, whether detectors return, raise, or the window is
\* too short.  (The registry is fixed once __init__ has built it.)
C24_DetectFrame ==
    [][\A r \in Reqs :
          Detecting(r) =>
              /\ req'[r] = req[r]
              /\ thresholds' = thresholds
              /\ detection_history' = detection_history]_vars

\* detect_patterns returned after detectors raised, with the request, the
\* thresholds and the history as they were
C24_Witness ==
    /\ pc["r1"] = "detected"
    /\ raised["r1"] # {}
    /\ Patterns \ raised["r1"] # {}
    /\ req["r1"] = Request(In("spike", 15, "neg", "m1"))
    /\ thresholds = InitialThresholds
    /\ detection_history = <<>>
    /\ auth = BackendAuthenticator

(***************************************************************************)
(* Two analyze requests served concurrently by one SignalGenerator.  Their *)
(* tapes are shorter than 10 ticks, so detect_patterns returns at once.    *)
(***************************************************************************)
PairPool ==
    { In("ramp", 9, "big", "wide"),
      In("flat", 0, "zero", "m1") }

NextPair ==
    \E r \in Reqs :
        \/ \E d \in PairPool : Receive(r, d, "analyze")
        \/ DetectStart(r)
        \/ \E now \in Nows : GsFeatures(r, now)
        \/ GsPredict(r)
        \/ \E m \in {"pattern", "confidence", "ensemble"} : GsPredictRaise(r, m)
        \/ GsCombine(r)
        \/ GsRisk(r)
        \/ GsBuild(r)
        \/ GsRaise(r)
        \/ GsExcept(r)
        \/ EpValidate(r)

SpecPair == Init /\ [][NextPair]_vars

\* C25: over any sequence and interleaving of generate_signal invocations
\* signals_generated never decreases, and model_weights,
\* successful_predictions and total_profit_points never change.
C25_OnlyCounterChanges ==
    [][/\ signals_generated' >= signals_generated
       /\ model_weights' = model_weights
       /\ successful_predictions' = successful_predictions
       /\ total_profit_points' = total_profit_points]_vars

\* one invocation has counted its signal while the other is in its except
\* branch, and the generator's other fields are as constructed
C25_Witness ==
    /\ pc["r1"] = "returned" /\ ~gs["r1"].handled
    /\ pc["r2"] = "except"
    /\ signals_generated = 1
    /\ model_weights = InitialModelWeights
    /\ successful_predictions = 0

\* C26: every response of analyze_market_data whose signal is HOLD has
\* stop_loss = target = the request's market price and risk_reward = 0,
\* also when the endpoint itself set HOLD because the confidence was below
\* CONFIDENCE_THRESHOLD.
C26_EndpointHoldIsFlat ==
    \A r \in Reqs :
        (kind[r] = "analyze" /\ pc[r] = "done"
             /\ response[r].signal = "HOLD") =>
            /\ response[r].stop_loss = req[r].market_data.price
            /\ response[r].target = req[r].market_data.price
            /\ response[r].risk_reward = Zero

\* C27: a BUY or SELL decision leaves _combine_predictions only with a
\* confidence of at least MIN_PATTERN_CONFIDENCE, and leaves the
\* analyze_market_data endpoint only with a confidence of at least
\* CONFIDENCE_THRESHOLD.
C27_DirectionalAboveThreshold ==
    \A r \in Reqs :
        /\ gs[r].final_signal \in {"BUY", "SELL"} =>
               RGe(gs[r].final_confidence, settings.MIN_PATTERN_CONFIDENCE)
        /\ (kind[r] = "analyze" /\ pc[r] = "done"
                /\ response[r].signal \in {"BUY", "SELL"}) =>
               RGe(response[r].confidence, settings.CONFIDENCE_THRESHOLD)

\* a BUY left the combiner between the two thresholds and the endpoint
\* answered HOLD
C27_Witness ==
    /\ pc["r1"] = "done"
    /\ gs["r1"].final_signal = "BUY"
    /\ signal["r1"].signal = "BUY"
    /\ RGe(signal["r1"].confidence, MIN_PATTERN_CONFIDENCE)
    /\ RLt(signal["r1"].confidence, CONFIDENCE_THRESHOLD)
    /\ response["r1"].signal = "HOLD"

\* C28: on a mapping whose keys are registry patterns the pattern strategy
\* never votes SELL, so whenever _combine_predictions decides SELL the
\* feature-confidence or the momentum-ensemble strategy voted SELL.
C28_PatternModelNeverSells ==
    \A r \in Reqs :
        (kind[r] = "analyze" /\ pc[r] \in {"combine", "risk", "build"}
             /\ DOMAIN detected[r] \subseteq Patterns) =>
            /\ gs[r].pattern_pred.signal # "SELL"
            /\ gs[r].final_signal = "SELL" =>
                   \/ gs[r].confidence_pred.signal = "SELL"
                   \/ gs[r].ensemble_pred.signal = "SELL"

\* the combiner decided SELL on a mapping with a detected pattern, for
\* which the pattern strategy voted HOLD
C28_Witness ==
    /\ pc["r1"] = "risk"
    /\ gs["r1"].final_signal = "SELL"
    /\ DOMAIN detected["r1"] = {"aggressive_entry"}
    /\ gs["r1"].pattern_pred.signal = "HOLD"
    /\ gs["r1"].ensemble_pred.signal = "SELL"

\* an invocation that returned a decision with no detector task and no
\* strategy having failed
DecidedCleanly(r) ==
    /\ Returned(r)
    /\ raised[r] = {}
    /\ gs[r].strategy_raised = {}
    /\ gs[r].final_signal \in {"BUY", "SELL", "HOLD"}
    /\ gs[r].handled => gs[r].zero_division

\* C29: every generate_signal invocation that decides without a detector
\* or strategy failure, HOLD included, has incremented signals_generated,
\* so the counter is at least the number of such invocations.
C29_EveryDecisionCounted ==
    signals_generated >= Cardinality({r \in Reqs : DecidedCleanly(r)})

\* ---------------------------------------------------------------------
\* BackendAuthenticator (Backend/ML_ENGINE_AUTH_CONFIG.py).  Every HTTP
\* call blocks until the backend answers, so each answer is one step.

\* refresh_tokens up to its HTTP call: without a refresh token it returns
\* authenticate() at once
EnterRefreshTokens(a, site) ==
    IF a.refresh_token = "None"
    THEN [a EXCEPT !.pc = "login", !.site = site, !.fallbacks = 1]
    ELSE [a EXCEPT !.pc = "refresh", !.site = site, !.fallbacks = 0]

\* ensure_authenticated up to its first HTTP call; late is the outcome of
\* now + 1h >= token_expires_at
EnsureAuthenticated(a, late) ==
    IF a.access_token = "None"
    THEN [a EXCEPT !.pc = "login", !.site = "ensure"]
    ELSE IF a.token_expires_at /\ late
    THEN EnterRefreshTokens(a, "ensure")
    ELSE [a EXCEPT !.pc = "request"]

\* the boolean of authenticate or refresh_tokens reaches its call site:
\* line 139 (ensure_authenticated) or line 149 (after a 401)
Resume(a, ok) ==
    IF a.site = "ensure"
    THEN [a EXCEPT !.pc = IF ok THEN "request" ELSE "raised"]
    ELSE [a EXCEPT !.pc = IF ok THEN "retry" ELSE "raised",
                   !.refreshed = ok]

MakeAuthenticatedRequest(late) ==
    /\ auth.pc \in {"idle", "returned", "raised"}
    /\ auth' = EnsureAuthenticated(
                   [auth EXCEPT !.site = "none", !.requests_sent = 0,
                                !.fallbacks = 0, !.status = "none",
                                !.refreshed = FALSE],
                   late)
    /\ UNCHANGED <<pc, kind, req, detVars, gs, signal, response,
                   signals_generated, genFields, detFields>>

\* authenticate: the answer to POST /api/auth/login, at and rt being the
\* tokens of its body.  "malformed" is a 200
\* whose body lacks tokens.accessToken (KeyError, caught), "error" an
\* exception of the HTTP call
Authenticate(resp, at, rt) ==
    /\ auth.pc = "login"
    /\ LET ok == resp \in {"tokens", "access_only"}
           a1 == IF ok
                 THEN [auth EXCEPT !.access_token = at,
                                   !.refresh_token =
                                       IF resp = "tokens" THEN rt ELSE "None",
                                   !.token_expires_at = TRUE]
                 ELSE auth
       IN  auth' = Resume(a1, ok)
    /\ UNCHANGED <<pc, kind, req, detVars, gs, signal, response,
                   signals_generated, genFields, detFields>>

\* refresh_tokens: the answer to POST /api/auth/refresh.  A 200 stores the
\* tokens ("access_only" keeps the old refresh token, "null_refresh"
\* carries refreshToken null); anything else falls back to authenticate
RefreshTokens(resp, at, rt) ==
    /\ auth.pc = "refresh"
    /\ IF resp \in {"rotated", "access_only", "null_refresh"}
       THEN auth' = Resume(
                        [auth EXCEPT !.access_token = at,
                                     !.refresh_token =
                                         IF resp = "rotated" THEN rt
                                         ELSE IF resp = "access_only" THEN @
                                         ELSE "None",
                                     !.token_expires_at = TRUE],
                        TRUE)
       ELSE auth' = [auth EXCEPT !.pc = "login", !.fallbacks = @ + 1]
    /\ UNCHANGED <<pc, kind, req, detVars, gs, signal, response,
                   signals_generated, genFields, detFields>>

\* the first session.request and the branch on its status
SessionRequest(status) ==
    /\ auth.pc = "request"
    /\ LET a1 == [auth EXCEPT !.requests_sent = @ + 1, !.status = status]
       IN  auth' = IF status = "error" THEN [a1 EXCEPT !.pc = "raised"]
                   ELSE IF status = "401"
                   THEN EnterRefreshTokens(a1, "unauthorized")
                   ELSE [a1 EXCEPT !.pc = "returned"]
    /\ UNCHANGED <<pc, kind, req, detVars, gs, signal, response,
                   signals_generated, genFields, detFields>>

\* a retry that handles a 401 the way the first request does
RetryRequestAgain(status) ==
    /\ auth.pc = "retry"
    /\ LET sent == IF auth.requests_sent < 3 THEN auth.requests_sent + 1
                   ELSE auth.requests_sent
           a1 == [auth EXCEPT !.requests_sent = sent, !.status = status]
       IN  auth' = IF status = "error" THEN [a1 EXCEPT !.pc = "raised"]
                   ELSE IF status = "401"
                   THEN EnterRefreshTokens(a1, "unauthorized")
                   ELSE [a1 EXCEPT !.pc = "returned"]
    /\ UNCHANGED <<pc, kind, req, detVars, gs, signal, response,
                   signals_generated, genFields, detFields>>

\* the retry of line 151: its response is returned whatever its status
RetryRequest(status) ==
    /\ auth.pc = "retry"
    /\ auth' = [auth EXCEPT !.requests_sent = @ + 1, !.status = status,
                            !.pc = IF status = "error" THEN "raised"
                                   ELSE "returned"]
    /\ UNCHANGED <<pc, kind, req, detVars, gs, signal, response,
                   signals_generated, genFields, detFields>>

NextAuth ==
    \/ \E late \in BOOLEAN : MakeAuthenticatedRequest(late)
    \/ \E resp \in {"tokens", "access_only", "malformed", "rejected", "error"} :
          \E at \in {"at1", "at2"}, rt \in {"rt1", "rt2"} :
              Authenticate(resp, at, rt)
    \/ \E resp \in {"rotated", "access_only", "null_refresh", "malformed", "rejected", "error"} :
          \E at \in {"at1", "at2"}, rt \in {"rt1", "rt2"} :
              RefreshTokens(resp, at, rt)
    \/ \E status \in {"200", "401", "500", "error"} : SessionRequest(status)
    \/ \E status \in {"200", "401", "500", "error"} : RetryRequest(status)

\* every HTTP call is answered (or fails with an exception): the steps that
\* consume an answer are weakly fair; starting a call is not
SpecAuth ==
    /\ Init
    /\ [][NextAuth]_vars
    /\ WF_vars(\E at \in {"at1", "at2"}, rt \in {"rt1", "rt2"} :
                  \E resp \in {"tokens", "access_only", "malformed", "rejected", "error"} :
                      Authenticate(resp, at, rt))
    /\ WF_vars(\E at \in {"at1", "at2"}, rt \in {"rt1", "rt2"} :
                  \E resp \in {"rotated", "access_only", "null_refresh", "malformed", "rejected", "error"} :
                      RefreshTokens(resp, at, rt))
    /\ WF_vars(\E status \in {"200", "401", "500", "error"} : SessionRequest(status))
    /\ WF_vars(\E status \in {"200", "401", "500", "error"} : RetryRequest(status))

AuthCalling == auth.pc \in {"login", "refresh", "request", "retry"}
AuthFinished == auth.pc \in {"returned", "raised"}

\* C30: make_authenticated_request terminates whatever the backend
\* answers; it sends the request at most twice, the second time only after
\* a 401 and a refresh_tokens that returned True; a refresh_tokens call
\* calls authenticate at most once, and authenticate calls neither
\* refresh_tokens nor itself.
C30_RequestTerminates ==
    /\ [](/\ auth.requests_sent <= 2
          /\ auth.fallbacks <= 1
          /\ auth.requests_sent = 2 => auth.refreshed)
    /\ [][auth.pc = "login" => auth'.pc \notin {"login", "refresh"}]_vars
    /\ [][auth.pc = "retry" => auth'.pc \in {"returned", "raised"}]_vars
    /\ (AuthCalling ~> AuthFinished)

\* a 401, a rejected refresh, a successful fallback login and the retry
C30_Witness ==
    /\ auth.pc = "returned"
    /\ auth.requests_sent = 2
    /\ auth.fallbacks = 1
    /\ auth.refreshed

====
